---- MODULE Spec2Model ----
(***************************************************************************)
(* Model of the ESP-IDF documentation server's indexing, scoring and       *)
(* recommendation code (recommendations.py, util.py, explorer.py).         *)
(*                                                                         *)
(* Python strings are TLA+ strings; a character is a string of length 1.   *)
(* Scores that Python keeps as floats are kept as integers in units of     *)
(* 10^-6 (Micro), natural logarithms come from the table LnMicro.          *)
(***************************************************************************)
EXTENDS Integers, Sequences, FiniteSets, TLC

VARIABLES
    document_index,      \* DocumentIndexer._document_index: path -> doc_info
    doc_order,           \* insertion order of the keys of _document_index
    term_frequency,      \* DocumentIndexer._term_frequency: path -> term -> count
    document_frequency,  \* DocumentIndexer._document_frequency: term -> count
    total_documents,     \* DocumentIndexer._total_documents
    build_pc,            \* position of the build_index coroutine
    build_queue,         \* all_files still to be processed by the running build
    indexed_count,       \* local indexed_count of the running build
    last_files,          \* the files the latest build_index call enumerated
    nbuilds,             \* number of build_index calls started
    last_init,           \* how the latest RecommendationEngine.initialize ended
    response,            \* the RecommendationResponse being returned, or None
    fn_in,               \* arguments of the SearchEngine method being called
    fn_out,              \* its return value, once it has returned
    tasks,               \* process_files_parallel: the limited_process tasks
    semaphore,           \* process_files_parallel: the value of the Semaphore
    environ,             \* os.environ: the variables from_environment reads
    _config,             \* config.py: the global configuration instance, or None
    config_call,         \* the latest get_config/set_config/reload_config call
    disk,                \* the documentation file: its content and st_mtime
    file_cache,          \* FileCache._cache: the entry of the file, or none
    search_local,        \* search_docs: position in the loop body and content
    get_result           \* what the latest FileCache.get returned, and when

vars == <<document_index, doc_order, term_frequency, document_frequency,
          total_documents, build_pc, build_queue, indexed_count, last_files,
          nbuilds, last_init, response, fn_in, fn_out, tasks, semaphore,
          environ, _config, config_call, disk, file_cache, search_local,
          get_result>>

indexVars == <<document_index, doc_order, term_frequency, document_frequency,
               total_documents, build_pc, build_queue, indexed_count,
               last_files, nbuilds, last_init, response>>

\* The state outside the indexer and the function calls.
parallelVars == <<tasks, semaphore>>

configVars == <<environ, _config, config_call>>

cacheVars == <<disk, file_cache, search_local, get_result>>

restVars == <<parallelVars, configVars, cacheVars>>

\* No process_files_parallel call has started.
ParallelIdle == tasks = <<>> /\ semaphore = <<>>

\* No environment variable is set and no configuration call was made.
ConfigIdle ==
    /\ environ = [ESP_IDF_MAX_RESULTS |-> <<>>, ESP_IDF_CACHE_SIZE |-> <<>>]
    /\ _config = <<>>
    /\ config_call = <<>>

\* The file as first written, an empty cache and no search under way.
CacheIdle ==
    /\ disk = [content |-> "v0", mtime |-> 0]
    /\ file_cache = <<>>
    /\ search_local = [pc |-> "idle", content |-> <<>>]
    /\ get_result = <<>>

RestIdle == ParallelIdle /\ ConfigIdle /\ CacheIdle

(***************************************************************************)
(* Bounds of the model.                                                    *)
(***************************************************************************)
MaxBuilds == 2
MaxLimit == 3

(***************************************************************************)
(* Python str helpers.                                                     *)
(***************************************************************************)
CharAt(s, i) == SubSeq(s, i, i)

Min(a, b) == IF a <= b THEN a ELSE b

Max(a, b) == IF a >= b THEN a ELSE b

\* Python slice s[lo:hi] for 0-based lo, hi >= 0 (clamped, empty when lo >= hi).
Slice(s, lo, hi) ==
    LET l == Min(Max(lo, 0), Len(s))
        h == Min(Max(hi, 0), Len(s))
    IN  IF l >= h THEN SubSeq(s, 1, 0) ELSE SubSeq(s, l + 1, h)

\* s.startswith(t, i - 1): t occurs in s at the 1-based position i.
OccursAt(s, i, t) ==
    /\ i >= 1
    /\ i + Len(t) - 1 <= Len(s)
    /\ SubSeq(s, i, i + Len(t) - 1) = t

\* Python "t in s" for strings.
Contains(s, t) == \E i \in 1..(Len(s) - Len(t) + 1) : OccursAt(s, i, t)

UpperCase == "ABCDEFGHIJKLMNOPQRSTUVWXYZ"

LowerCase == "abcdefghijklmnopqrstuvwxyz"

Digits == "0123456789"

\* str.lower() of one character.  "$" stands for U+0130 (capital I with dot
\* above), the character whose lower() has two characters: "i" followed by
\* the combining dot U+0307, written "^" here.
LowerChar(c) ==
    IF \E i \in 1..Len(UpperCase) : CharAt(UpperCase, i) = c
    THEN CharAt(LowerCase, CHOOSE i \in 1..Len(UpperCase) : CharAt(UpperCase, i) = c)
    ELSE IF c = "$" THEN "i^" ELSE c

\* str.lower(), character by character (by halves, to keep the recursion flat).
RECURSIVE Lower(_)
Lower(s) ==
    IF Len(s) = 0 THEN ""
    ELSE IF Len(s) = 1 THEN LowerChar(s)
    ELSE Lower(SubSeq(s, 1, Len(s) \div 2)) \o Lower(SubSeq(s, Len(s) \div 2 + 1, Len(s)))

IsSpace(c) == c \in {" ", "\t", "\n"}

\* \w of Python's re on str: letters, digits, underscore.
IsWordChar(c) ==
    \/ \E i \in 1..Len(LowerCase) : CharAt(LowerCase, i) = c \/ CharAt(UpperCase, i) = c
    \/ \E i \in 1..Len(Digits) : CharAt(Digits, i) = c
    \/ c \in {"_", "$"}

\* str.split(): the maximal runs of non-whitespace characters, in order.
Split(s) ==
    LET starts == {i \in 1..Len(s) :
                      /\ ~IsSpace(CharAt(s, i))
                      /\ (i = 1 \/ IsSpace(CharAt(s, i - 1)))}
        nth(k) == CHOOSE i \in starts : Cardinality({j \in starts : j < i}) = k - 1
        endOf(i) == CHOOSE j \in i..Len(s) :
                       /\ \A m \in i..j : ~IsSpace(CharAt(s, m))
                       /\ (j = Len(s) \/ IsSpace(CharAt(s, j + 1)))
    IN  [k \in 1..Cardinality(starts) |-> SubSeq(s, nth(k), endOf(nth(k)))]

\* " ".join(words)
RECURSIVE JoinSpace(_)
JoinSpace(words) ==
    IF Len(words) = 0 THEN ""
    ELSE IF Len(words) = 1 THEN words[1]
    ELSE words[1] \o " " \o JoinSpace(Tail(words))

\* A substitution that keeps every character.
SubSpecialKeepAll(s) == s

\* re.sub(r"[^\w\s\-_.]", " ", text): every character that is neither a word
\* character, whitespace, "-", "_" nor "." becomes a space.
RECURSIVE SubSpecial(_)
SubSpecial(s) ==
    IF Len(s) = 0 THEN ""
    ELSE IF Len(s) = 1
    THEN (IF IsWordChar(s) \/ IsSpace(s) \/ s \in {"-", "_", "."} THEN s ELSE " ")
    ELSE SubSpecial(SubSeq(s, 1, Len(s) \div 2))
         \o SubSpecial(SubSeq(s, Len(s) \div 2 + 1, Len(s)))

\* TextProcessor.normalize_text.  The whitespace collapse of its second step
\* is subsumed by the final " ".join(text.split()).
NormalizeText(text) == JoinSpace(Split(SubSpecial(Lower(text))))

\* Python seq[:n]
Take(seq, n) ==
    IF n >= 0 THEN SubSeq(seq, 1, Min(n, Len(seq)))
    ELSE SubSeq(seq, 1, Max(Len(seq) + n, 0))

\* Python n // 2
FloorHalf(n) == IF n >= 0 THEN n \div 2 ELSE -((1 - n) \div 2)

Range(seq) == {seq[i] : i \in DOMAIN seq}

RECURSIVE SumSeq(_)
SumSeq(seq) == IF Len(seq) = 0 THEN 0 ELSE Head(seq) + SumSeq(Tail(seq))

(***************************************************************************)
(* The documentation tree.  A file is given by what build_index extracts   *)
(* from it: the cleaned text (its words are counted after normalize_text), *)
(* pad further occurrences of the word "lorem", the extracted headings,    *)
(* the extracted description and the number of code blocks.  raises says   *)
(* that reading or processing the file throws.                             *)
(***************************************************************************)
NoDescription == "No description available."

AbsentFile ==
    [present |-> FALSE, raises |-> FALSE, text |-> "", pad |-> 0,
     headings |-> <<>>, description |-> "", code_blocks |-> 0]

RaisingFile == [AbsentFile EXCEPT !.present = TRUE, !.raises = TRUE]

WifiApiFile ==
    [present |-> TRUE, raises |-> FALSE,
     text |-> "WiFi API Reference\n==================\n\nThe WiFi driver supports station mode.\n\nStation Mode\n------------\n",
     pad |-> 0,
     headings |-> << [level |-> 1, title |-> "WiFi API Reference"], [level |-> 2, title |-> "Station Mode"] >>,
     description |-> "The WiFi driver supports station mode.",
     code_blocks |-> 1]

WifiExampleFile ==
    [present |-> TRUE, raises |-> FALSE,
     text |-> "WiFi Examples\n=============\n\nwifi example\n",
     pad |-> 0,
     headings |-> << [level |-> 1, title |-> "WiFi Examples"] >>,
     description |-> NoDescription,
     code_blocks |-> 0]

GpioFile ==
    [present |-> TRUE, raises |-> FALSE,
     text |-> "# GPIO Basics\n\nGPIO pins are digital inputs and outputs.\n",
     pad |-> 0,
     headings |-> << [level |-> 1, title |-> "GPIO Basics"] >>,
     description |-> "GPIO pins are digital inputs and outputs.",
     code_blocks |-> 0]

StartedFile ==
    [present |-> TRUE, raises |-> FALSE,
     text |-> "Getting started with wifi and gpio on the chip.\n\n\n",
     pad |-> 1200,
     headings |-> <<  >>,
     description |-> "Getting started with wifi and gpio on the chip. lorem lorem lorem lorem lorem lorem lorem lorem lorem lorem lorem lorem lorem lorem lorem lorem lorem lorem lorem lorem lorem lorem lorem lorem lorem lo...",
     code_blocks |-> 0]

GpioReferenceFile ==
    [present |-> TRUE, raises |-> FALSE,
     text |-> "# GPIO API Reference\n\nGPIO pins are digital inputs and outputs.\n",
     pad |-> 0,
     headings |-> << [level |-> 1, title |-> "GPIO API Reference"] >>,
     description |-> "GPIO pins are digital inputs and outputs.",
     code_blocks |-> 0]

StartedWifiFile ==
    [present |-> TRUE, raises |-> FALSE,
     text |-> "Getting started with the wifi station and network api.\n",
     pad |-> 0,
     headings |-> <<  >>,
     description |-> "Getting started with the wifi station and network api.",
     code_blocks |-> 0]

\* all_files in enumeration order: the "**/*.rst" matches, then "**/*.md".
FileOrder == << "api/wifi.rst", "gpio.md", "getting-started.md" >>

Docs == Range(FileOrder)

\* What each path can hold when a build enumerates the tree.
FileOptions ==
    [d \in Docs |->
        IF d = "api/wifi.rst" THEN {AbsentFile, RaisingFile, WifiApiFile, WifiExampleFile}
        ELSE IF d = "gpio.md" THEN {AbsentFile, RaisingFile, GpioFile, GpioReferenceFile}
        ELSE {AbsentFile, StartedFile, StartedWifiFile}]

Snapshots == {s \in [Docs -> UNION {FileOptions[d] : d \in Docs}] :
                 \A d \in Docs : s[d] \in FileOptions[d]}

NoFiles == [d \in Docs |-> AbsentFile]

EmptyDict == [k \in {} |-> 0]

\* Path.stem: the last path component without its last suffix.
RECURSIVE LastIndexOf(_, _, _)
LastIndexOf(s, c, i) ==
    IF i = 0 THEN 0 ELSE IF CharAt(s, i) = c THEN i ELSE LastIndexOf(s, c, i - 1)

Stem(path) ==
    LET name == SubSeq(path, LastIndexOf(path, "/", Len(path)) + 1, Len(path))
        dot  == LastIndexOf(name, ".", Len(name))
    IN  IF dot > 1 THEN SubSeq(name, 1, dot - 1) ELSE name

\* words = normalized_content.split(), with the pad words.
WordsOf(f) == Split(NormalizeText(f.text))

\* Counter(words)
CounterOf(f) ==
    LET words == WordsOf(f)
        keys  == Range(words) \cup (IF f.pad > 0 THEN {"lorem"} ELSE {})
    IN  [t \in keys |->
            Cardinality({i \in DOMAIN words : words[i] = t})
            + (IF t = "lorem" THEN f.pad ELSE 0)]

\* The entry build_index stores in _document_index for a processed file.
DocInfo(path, f) ==
    [title          |-> IF Len(f.headings) > 0 THEN f.headings[1].title ELSE Stem(path),
     description    |-> f.description,
     word_count     |-> Len(WordsOf(f)) + f.pad,
     headings       |-> f.headings,
     code_blocks    |-> f.code_blocks,
     term_frequency |-> CounterOf(f)]

\* dict[key] = value
DictPut(dict, key, value) ==
    [k \in DOMAIN dict \cup {key} |-> IF k = key THEN value ELSE dict[k]]

\* _document_index after the loop body ran on path: a file that raises does
\* so before the entry is stored, so the except branch leaves the index alone.
IndexAfterDocStoreFirst(idx, path, f) == DictPut(idx, path, DocInfo(path, f))

IndexAfterDoc(idx, path, f) ==
    IF f.raises THEN idx ELSE DictPut(idx, path, DocInfo(path, f))

\* _document_frequency after the loop body ran on a processed file: every
\* term of its Counter is incremented (a defaultdict, never reset).
FrequencyAfterDoc(df, f) ==
    LET tf == CounterOf(f)
    IN  [t \in DOMAIN df \cup DOMAIN tf |->
            (IF t \in DOMAIN df THEN df[t] ELSE 0)
            + (IF t \in DOMAIN tf /\ tf[t] > 0 THEN 1 ELSE 0)]

\* _term_frequency[rel_path][term] = count, for the terms of the Counter.
TermFrequencyAfterDoc(tfs, path, f) ==
    LET tf  == CounterOf(f)
        old == IF path \in DOMAIN tfs THEN tfs[path] ELSE EmptyDict
    IN  DictPut(tfs, path,
                [t \in DOMAIN old \cup DOMAIN tf |->
                    IF t \in DOMAIN tf THEN tf[t] ELSE old[t]])

\* DocumentIndexer.get_all_documents
GetAllDocuments == doc_order

\* Whether a task other than the running build can be scheduled: asyncio
\* switches tasks only at an await that suspends, and the loop of
\* build_index over all_files contains none.
BuildAwaitsInLoopYes == TRUE

BuildAwaitsInLoop == FALSE

OtherTaskCanRun == build_pc = "idle" \/ BuildAwaitsInLoop

(***************************************************************************)
(* DocumentIndexer.build_index, called through                             *)
(* RecommendationEngine.initialize.                                        *)
(***************************************************************************)
\* Lines 62-72: enumerate the files.  rglob can raise (an unreadable root);
\* nothing catches that, so it leaves initialize as an exception.
BuildStart ==
    /\ build_pc = "idle"
    /\ response = <<>>
    /\ nbuilds < MaxBuilds
    /\ nbuilds' = nbuilds + 1
    /\ \/ /\ \E snap \in Snapshots :
                /\ last_files' = snap
                /\ build_queue' = SelectSeq(FileOrder, LAMBDA d : snap[d].present)
          /\ build_pc' = "building"
          /\ indexed_count' = 0
          /\ last_init' = "running"
       \/ /\ last_init' = "raised"
          /\ last_files' = NoFiles
          /\ UNCHANGED <<build_pc, build_queue, indexed_count>>
    /\ UNCHANGED <<document_index, doc_order, term_frequency, document_frequency,
                   total_documents, response, fn_in, fn_out, restVars>>

\* Lines 74-130: one iteration of the loop over all_files.
BuildDoc ==
    /\ build_pc = "building"
    /\ response = <<>>
    /\ build_queue # <<>>
    /\ LET path == Head(build_queue)
           f    == last_files[path]
       IN  /\ document_index' = IndexAfterDoc(document_index, path, f)
           /\ doc_order' = IF path \in DOMAIN document_index'
                              /\ path \notin Range(doc_order)
                           THEN Append(doc_order, path) ELSE doc_order
           /\ IF f.raises
              THEN UNCHANGED <<term_frequency, document_frequency, indexed_count>>
              ELSE /\ term_frequency' = TermFrequencyAfterDoc(term_frequency, path, f)
                   /\ document_frequency' = FrequencyAfterDoc(document_frequency, f)
                   /\ indexed_count' = indexed_count + 1
    /\ build_queue' = Tail(build_queue)
    /\ UNCHANGED <<total_documents, build_pc, last_files, nbuilds, last_init,
                   response, fn_in, fn_out, restVars>>

\* Lines 132-136: publish the count.
BuildFinish ==
    /\ build_pc = "building"
    /\ response = <<>>
    /\ build_queue = <<>>
    /\ total_documents' = indexed_count
    /\ build_pc' = "idle"
    /\ last_init' = "ok"
    /\ UNCHANGED <<document_index, doc_order, term_frequency, document_frequency,
                   build_queue, indexed_count, last_files, nbuilds, response,
                   fn_in, fn_out, restVars>>

(***************************************************************************)
(* DocumentIndexer.calculate_tf_idf_similarity                             *)
(***************************************************************************)
Micro == 1000000

\* 10^6 * ln(k), rounded, for k = 1..12 (math.log).
LnMicro ==
    << 0, 693147, 1098612, 1386294, 1609438, 1791759,
       1945910, 2079442, 2197225, 2302585, 2397895, 2484907 >>

\* self._document_frequency.get(term, 0)
FrequencyOf(term) ==
    IF term \in DOMAIN document_frequency THEN document_frequency[term] ELSE 0

\* math.log(self._total_documents / df) raises ValueError for a quotient of 0.
TfIdfRaises(query_terms, path) ==
    /\ path \in DOMAIN document_index
    /\ \E i \in DOMAIN query_terms :
          /\ query_terms[i] \in DOMAIN document_index[path].term_frequency
          /\ FrequencyOf(query_terms[i]) > 0
          /\ total_documents = 0

\* The contribution tf * idf of one query term, in units of 10^-6.
TermScore(term, path) ==
    LET doc_tf == document_index[path].term_frequency
        wc     == document_index[path].word_count
        df     == FrequencyOf(term)
    IN  IF term \notin DOMAIN doc_tf THEN 0
        ELSE IF wc = 0 \/ df = 0 THEN 0
        ELSE (doc_tf[term] * (LnMicro[total_documents] - LnMicro[df])) \div wc

TfIdf(query_terms, path) ==
    IF path \notin DOMAIN document_index THEN 0
    ELSE SumSeq([i \in DOMAIN query_terms |-> TermScore(query_terms[i], path)])

(***************************************************************************)
(* RecommendationEngine                                                    *)
(***************************************************************************)
Recommendation(path, score, type) ==
    [file_path |-> path, relevance_score |-> score, recommendation_type |-> type]

Count(S) == Cardinality(S)

\* list.sort(key=score, reverse=True) and sorted(..., reverse=True): a stable
\* sort, elements of equal score keep their order.
RECURSIVE SortByScoreUnstable(_)
SortByScoreUnstable(recs) ==
    IF Len(recs) <= 1 THEN recs
    ELSE LET init == SortByScoreUnstable(SubSeq(recs, 1, Len(recs) - 1))
             x    == recs[Len(recs)]
             k    == Count({i \in DOMAIN init :
                               init[i].relevance_score > x.relevance_score})
         IN  SubSeq(init, 1, k) \o <<x>> \o SubSeq(init, k + 1, Len(init))

RECURSIVE SortByScore(_)
SortByScore(recs) ==
    IF Len(recs) <= 1 THEN recs
    ELSE LET init == SortByScore(SubSeq(recs, 1, Len(recs) - 1))
             x    == recs[Len(recs)]
             k    == Count({i \in DOMAIN init :
                               init[i].relevance_score >= x.relevance_score})
         IN  SubSeq(init, 1, k) \o <<x>> \o SubSeq(init, k + 1, Len(init))

\* _get_content_similarity_recommendations: the title and heading bonuses
\* of one document, in units of 10^-6.
SimilarityBonus(query_terms, info) ==
    LET title_bonus ==
            10 * Count({i \in DOMAIN query_terms :
                           Contains(Lower(info.title), query_terms[i])})
        heading_bonus ==
            SumSeq([h \in DOMAIN info.headings |->
                       Count({i \in DOMAIN query_terms :
                                 Contains(Lower(info.headings[h].title), query_terms[i])})
                       * ((5 * Micro) \div info.headings[h].level)])
    IN  title_bonus * Micro + heading_bonus

\* re.search of "<a>.?<b>": a, at most one character other than a newline, b.
SearchOpt(a, b, s) ==
    \/ Contains(s, a \o b)
    \/ \E i \in 1..Len(s) :
          /\ OccursAt(s, i, a)
          /\ i + Len(a) <= Len(s)
          /\ CharAt(s, i + Len(a)) # "\n"
          /\ OccursAt(s, i + Len(a) + 1, b)

ImportantPatterns ==
    << [a |-> "getting", b |-> "started", type |-> "popular_getting_started_guide", points |-> 15],
       [a |-> "api", b |-> "reference", type |-> "popular_api_reference", points |-> 12],
       [a |-> "example", b |-> "", type |-> "popular_code_examples", points |-> 10],
       [a |-> "tutorial", b |-> "", type |-> "popular_tutorial", points |-> 10],
       [a |-> "quick", b |-> "start", type |-> "popular_quick_start_guide", points |-> 8],
       [a |-> "overview", b |-> "", type |-> "popular_overview_documentation", points |-> 6] >>

PatternMatches(p, path, info) ==
    \/ SearchOpt(p.a, p.b, Lower(path))
    \/ SearchOpt(p.a, p.b, Lower(info.title))

\* _get_popular_recommendations: the score and type of one document (the
\* first matching pattern wins) and whether it is recommended.
PopularRecommendation(query, path, info) ==
    LET hits == {i \in DOMAIN ImportantPatterns :
                    PatternMatches(ImportantPatterns[i], path, info)}
        first == CHOOSE i \in hits : \A j \in hits : i <= j
        score == (IF hits = {} THEN 0 ELSE ImportantPatterns[first].points)
                 + (IF info.word_count > 1000 THEN 5 ELSE 0)
                 + (IF Len(info.headings) > 5 THEN 3 ELSE 0)
                 + (IF info.code_blocks > 0 THEN 4 ELSE 0)
        terms == Split(Lower(query))
        query_relevant ==
            \E i \in DOMAIN terms :
                \/ Contains(Lower(info.title), terms[i])
                \/ Contains(Lower(info.description), terms[i])
    IN  [keep |-> score > 0 /\ query_relevant,
         rec  |-> Recommendation(path, score * Micro,
                     IF hits = {} THEN "popular" ELSE ImportantPatterns[first].type)]

ApiRelationships ==
    << [key |-> "wifi", terms |-> {"esp_wifi", "wireless", "ap", "sta", "station", "network"}],
       [key |-> "bluetooth", terms |-> {"ble", "bt", "classic", "gatt", "gap"}],
       [key |-> "gpio", terms |-> {"pin", "digital", "input", "output", "interrupt"}],
       [key |-> "uart", terms |-> {"serial", "communication", "usart", "console"}],
       [key |-> "spi", terms |-> {"serial", "peripheral", "interface", "master", "slave"}],
       [key |-> "i2c", terms |-> {"iic", "two-wire", "twi", "master", "slave"}],
       [key |-> "timer", terms |-> {"countdown", "alarm", "interrupt", "hardware"}],
       [key |-> "adc", terms |-> {"analog", "digital", "converter", "voltage"}],
       [key |-> "dac", terms |-> {"digital", "analog", "converter", "output"}],
       [key |-> "pwm", terms |-> {"pulse", "width", "modulation", "signal"}],
       [key |-> "nvs", terms |-> {"storage", "flash", "partition", "key-value"}],
       [key |-> "spiffs", terms |-> {"filesystem", "flash", "storage"}],
       [key |-> "fatfs", terms |-> {"filesystem", "fat", "storage", "sdcard"}],
       [key |-> "freertos", terms |-> {"rtos", "task", "scheduler", "queue", "semaphore"}],
       [key |-> "esp32", terms |-> {"esp-32", "espressif", "chip", "mcu"}],
       [key |-> "http", terms |-> {"client", "server", "request", "response", "web"}],
       [key |-> "mqtt", terms |-> {"message", "broker", "publish", "subscribe"}],
       [key |-> "json", terms |-> {"parse", "generate", "data", "format"}],
       [key |-> "ota", terms |-> {"update", "firmware", "upgrade", "download"}],
       [key |-> "security", terms |-> {"encryption", "tls", "ssl", "crypto", "hash"}] >>

\* Lines 455-462: the keys and terms of every row the query touches.
RelatedTerms(query) ==
    LET query_lower == Lower(query)
        rows == {i \in DOMAIN ApiRelationships :
                    \/ Contains(query_lower, ApiRelationships[i].key)
                    \/ \E t \in ApiRelationships[i].terms : Contains(query_lower, t)}
    IN  UNION {ApiRelationships[i].terms \cup {ApiRelationships[i].key} : i \in rows}

\* _get_related_api_recommendations: the score of one document.
RelatedScore(related_terms, path, info) ==
    LET doc_text == Lower(info.title \o " " \o info.description)
    IN  3 * Count({t \in related_terms : Contains(doc_text, t)})
        + SumSeq([h \in DOMAIN info.headings |->
                     5 * Count({t \in related_terms :
                                   Contains(Lower(info.headings[h].title), t)})])
        + (IF Contains(Lower(path), "api") \/ Contains(Lower(path), "reference")
           THEN 8 ELSE 0)

\* The queries and limits get_recommendations is called with.
Queries == {"wifi", "GPIO pin!", "wifi api example", ""}

Limits == -1..MaxLimit

\* The entries _document_index can hold, and, evaluated once for each of
\* them and each query, the parts of the three scores that depend on the
\* entry and the query alone.
IndexEntries ==
    UNION {{<<d, DocInfo(d, f)>> : f \in {g \in FileOptions[d] : g.present /\ ~g.raises}} :
              d \in Docs}

QueryTerms == [q \in Queries |-> Split(NormalizeText(q))]

ScoresOfEntry(q, path, info) ==
    [bonus   |-> SimilarityBonus(QueryTerms[q], info),
     popular |-> PopularRecommendation(q, path, info),
     related |-> RelatedScore(RelatedTerms(q), path, info)]

EntryScores ==
    [q \in Queries |-> [e \in IndexEntries |-> ScoresOfEntry(q, e[1], e[2])]]

RelatedTermsEmpty == [q \in Queries |-> RelatedTerms(q) = {}]

ScoresOf(query, path) ==
    IF <<path, document_index[path]>> \in IndexEntries
    THEN EntryScores[query][<<path, document_index[path]>>]
    ELSE ScoresOfEntry(query, path, document_index[path])

SimilarityRaises(query) ==
    \E i \in DOMAIN doc_order : TfIdfRaises(QueryTerms[query], doc_order[i])

SimilarityRecommendations(query, limit) ==
    LET all == [i \in DOMAIN doc_order |->
                   Recommendation(doc_order[i],
                                  TfIdf(QueryTerms[query], doc_order[i])
                                  + ScoresOf(query, doc_order[i]).bonus,
                                  "content_similarity")]
        doc_scores == SelectSeq(all, LAMBDA r : r.relevance_score > 0)
    IN  Take(SortByScore(doc_scores), limit)

PopularRecommendations(query, limit) ==
    LET all  == [i \in DOMAIN doc_order |-> ScoresOf(query, doc_order[i]).popular]
        kept == SelectSeq(all, LAMBDA x : x.keep)
    IN  Take(SortByScore([i \in DOMAIN kept |-> kept[i].rec]), limit)

RelatedRecommendations(query, limit) ==
    LET all == [i \in DOMAIN doc_order |->
                   Recommendation(doc_order[i],
                                  ScoresOf(query, doc_order[i]).related * Micro,
                                  "related_api")]
    IN  IF RelatedTermsEmpty[query] THEN <<>>
        ELSE Take(SortByScore(SelectSeq(all, LAMBDA r : r.relevance_score > 0)), limit)

\* Lines 255-258: the concatenation of the three generators' lists.
AllRecommendations(query, limit) ==
    SimilarityRecommendations(query, limit)
    \o PopularRecommendations(query, FloorHalf(limit))
    \o RelatedRecommendations(query, FloorHalf(limit))

KeepAll(recs) == recs

\* Lines 261-267: keep the first recommendation of each file_path.
UniqueRecommendations(recs) ==
    LET keep == {i \in DOMAIN recs :
                    \A j \in 1..(i - 1) : recs[j].file_path # recs[i].file_path}
        first(n) == CHOOSE i \in keep : Count({j \in keep : j < i}) = n - 1
    IN  [n \in 1..Count(keep) |-> recs[first(n)]]

\* Lines 264-270: sort the concatenation, remove duplicates, cut to limit.
MergeUnsorted(recs, limit) == Take(UniqueRecommendations(recs), limit)

Merge(recs, limit) == Take(UniqueRecommendations(SortByScore(recs)), limit)

\* What the body of the try block of get_recommendations comes to.
TryRecommendations(query, limit) ==
    IF SimilarityRaises(query)
    THEN [raised |-> TRUE, recs |-> <<>>]
    ELSE [raised |-> FALSE, recs |-> Merge(AllRecommendations(query, limit), limit)]

\* get_recommendations without its except clause.
GetRecommendationsUncaught(query, limit) ==
    LET body == TryRecommendations(query, limit)
    IN  [query |-> query, limit |-> limit, recommendations |-> body.recs,
         error |-> FALSE, propagated |-> body.raised,
         total_documents |-> total_documents]

\* RecommendationEngine.get_recommendations: the response and its metadata
\* (an "error" key, or the index_stats); propagated says that an exception
\* left the call instead.
GetRecommendations(query, limit) ==
    LET body == TryRecommendations(query, limit)
    IN  [query |-> query, limit |-> limit, recommendations |-> body.recs,
         error |-> body.raised, propagated |-> FALSE,
         total_documents |-> total_documents]

\* ESPIDFDocsExplorer.get_recommendations awaiting the engine's call; the
\* call has no suspending await, so it runs to its return in one piece.
Recommend ==
    /\ OtherTaskCanRun
    /\ response = <<>>
    /\ \E q \in Queries, l \in Limits : response' = << GetRecommendations(q, l) >>
    /\ UNCHANGED <<document_index, doc_order, term_frequency, document_frequency,
                   total_documents, build_pc, build_queue, indexed_count,
                   last_files, nbuilds, last_init, fn_in, fn_out, restVars>>

\* The response is handed to the caller.
Return ==
    /\ response # <<>>
    /\ response' = <<>>
    /\ UNCHANGED <<document_index, doc_order, term_frequency, document_frequency,
                   total_documents, build_pc, build_queue, indexed_count,
                   last_files, nbuilds, last_init, fn_in, fn_out, restVars>>

Init ==
    /\ document_index = EmptyDict
    /\ doc_order = <<>>
    /\ term_frequency = EmptyDict
    /\ document_frequency = EmptyDict
    /\ total_documents = 0
    /\ build_pc = "idle"
    /\ build_queue = <<>>
    /\ indexed_count = 0
    /\ last_files = NoFiles
    /\ nbuilds = 0
    /\ last_init = "none"
    /\ response = <<>>
    /\ fn_in = <<>>
    /\ fn_out = <<>>
    /\ RestIdle

Next == BuildStart \/ BuildDoc \/ BuildFinish \/ Recommend \/ Return

Spec == Init /\ [][Next]_vars

(***************************************************************************)
(* Properties of the index and of the recommendation engine, under Spec.   *)
(***************************************************************************)
Returned == response # <<>>

\* The documents the latest build_index call processed without an exception.
Processed == {d \in Docs : last_files[d].present /\ ~last_files[d].raises}

\* The documents whose processing raised in the latest build_index call.
Failed == {d \in Docs : last_files[d].present /\ last_files[d].raises}

BuildCompleted == build_pc = "idle" /\ last_init = "ok"

\* The number of indexed documents whose term_frequency contains term.
DocumentsWith(term) ==
    Cardinality({d \in DOMAIN document_index :
                    /\ term \in DOMAIN document_index[d].term_frequency
                    /\ document_index[d].term_frequency[term] >= 1})

IndexedTerms ==
    DOMAIN document_frequency
    \cup UNION {DOMAIN document_index[d].term_frequency : d \in DOMAIN document_index}

\* C1: the list get_recommendations returns holds no two recommendations
\* with the same file_path.
C1_NoDuplicatePaths ==
    Returned =>
        \A i, j \in DOMAIN response[1].recommendations :
            i # j => response[1].recommendations[i].file_path
                     # response[1].recommendations[j].file_path

\* C1 witness: a returned list for which the generators produced the same
\* document more than once.
C1_Witness ==
    /\ Returned
    /\ ~response[1].error
    /\ Len(response[1].recommendations) >= 2
    /\ LET all == AllRecommendations(response[1].query, response[1].limit)
       IN  \E i, j \in DOMAIN all : i < j /\ all[i].file_path = all[j].file_path

\* C2: the list get_recommendations returns is ordered by relevance_score,
\* non-increasing.
C2_SortedByScore ==
    Returned =>
        \A i \in DOMAIN response[1].recommendations :
            i > 1 => response[1].recommendations[i - 1].relevance_score
                     >= response[1].recommendations[i].relevance_score

\* C2 witness: a returned list of different scores whose generators' lists,
\* concatenated, were not in score order.
C2_Witness ==
    /\ Returned
    /\ Len(response[1].recommendations) >= 2
    /\ response[1].recommendations[1].relevance_score
       > response[1].recommendations[2].relevance_score
    /\ LET all == AllRecommendations(response[1].query, response[1].limit)
       IN  \E i \in DOMAIN all :
              i > 1 /\ all[i - 1].relevance_score < all[i].relevance_score

\* C3: after every completed build_index call, a first build or a rebuild,
\* document_frequency[t] is the number of indexed documents whose
\* term_frequency contains t.
C3_FrequencyCountsDocuments ==
    BuildCompleted =>
        \A t \in IndexedTerms : FrequencyOf(t) = DocumentsWith(t)

\* C4: after any completed build_index call, get_all_documents is exactly
\* the set of documents that call processed.
C4_IndexReplacedWholesale ==
    BuildCompleted => Range(GetAllDocuments) = Processed

\* C5: in a build on a new indexer a document that raises is skipped: it is
\* not in get_all_documents, total_documents does not count it, and every
\* other document of the build is indexed.
C5_FailedDocumentSkipped ==
    (BuildCompleted /\ nbuilds = 1) =>
        /\ \A d \in Failed : d \notin Range(GetAllDocuments)
        /\ total_documents = Cardinality(Processed)
        /\ \A d \in Processed :
              /\ d \in Range(GetAllDocuments)
              /\ document_index[d] = DocInfo(d, last_files[d])

\* C5 witness: a completed first build in which one document raised and
\* another, enumerated after it, was indexed.
C5_Witness ==
    /\ BuildCompleted
    /\ nbuilds = 1
    /\ "gpio.md" \in Failed
    /\ "getting-started.md" \in Processed
    /\ "api/wifi.rst" \in Processed
    /\ total_documents = 2

\* C6: a get_recommendations call interleaved with the first index build
\* sees either an index without documents, and then returns an empty list
\* and no error, or the index of the completed build, whose
\* document_frequency and total_documents account for all its documents.
C6_NoPartialIndexObserved ==
    (Returned /\ nbuilds <= 1) =>
        \/ /\ document_index = EmptyDict
           /\ response[1].total_documents = 0
           /\ response[1].recommendations = <<>>
           /\ ~response[1].error
           /\ ~response[1].propagated
        \/ /\ BuildCompleted
           /\ response[1].total_documents = Cardinality(DOMAIN document_index)
           /\ \A t \in IndexedTerms : FrequencyOf(t) = DocumentsWith(t)

\* C6 witness: a call made after the first build completed, which sees its
\* documents and recommends some.
C6_Witness ==
    /\ Returned
    /\ nbuilds = 1
    /\ BuildCompleted
    /\ response[1].total_documents = 3
    /\ response[1].recommendations # <<>>

\* C7 as stated: no exception leaves the engine; when the index build or a
\* generator raises, the caller gets a response with an empty list and an
\* error note.
C7_EngineNeverPropagates ==
    /\ last_init # "raised"
    /\ Returned =>
          /\ ~response[1].propagated
          /\ SimilarityRaises(response[1].query) =>
                response[1].recommendations = <<>> /\ response[1].error

\* C7 amended: no exception leaves get_recommendations, and when a generator
\* raises the response has an empty list and an error note; a document that
\* raises never makes initialize raise, only the enumeration of the files
\* does, before any document is processed.
C7_GetRecommendationsNeverPropagates ==
    /\ Returned =>
          /\ ~response[1].propagated
          /\ SimilarityRaises(response[1].query) =>
                response[1].recommendations = <<>> /\ response[1].error
    /\ (build_pc = "idle" /\ Failed # {}) => last_init = "ok"
    /\ last_init = "raised" => Processed \cup Failed = {}

\* C7 witness: a response to a call in which the similarity generator raised.
C7_Witness ==
    /\ Returned
    /\ SimilarityRaises(response[1].query)
    /\ response[1].error
    /\ response[1].recommendations = <<>>

(***************************************************************************)
(* SearchEngine.calculate_relevance_score.  The score is a float in the    *)
(* code; here it is the exact rational num / den, den > 0: every term of   *)
(* the sum is an integer and the length factor is 0.5 + 500 / word_count.  *)
(***************************************************************************)
MaxMatches == 3

\* time.time() at the call, in seconds.
Now == 100 * 86400

\* str.strip()
Strip(s) ==
    LET ns == {i \in 1..Len(s) : ~IsSpace(CharAt(s, i))}
    IN  IF ns = {} THEN SubSeq(s, 1, 0)
        ELSE SubSeq(s, CHOOSE i \in ns : \A j \in ns : i <= j,
                       CHOOSE i \in ns : \A j \in ns : i >= j)

\* content.split("\n")
SplitLines(s) ==
    LET nls    == {i \in 1..Len(s) : CharAt(s, i) = "\n"}
        n      == Cardinality(nls)
        nth(k) == IF k = 0 THEN 0
                  ELSE IF k = n + 1 THEN Len(s) + 1
                  ELSE CHOOSE i \in nls : Cardinality({j \in nls : j <= i}) = k
    IN  [k \in 1..(n + 1) |-> SubSeq(s, nth(k - 1) + 1, nth(k) - 1)]

\* str.count: the occurrences of t in s from the 1-based position i on,
\* found left to right without overlap; "" occurs between all characters.
RECURSIVE CountFrom(_, _, _)
CountFrom(s, t, i) ==
    IF Len(t) = 0 THEN Len(s) + 2 - i
    ELSE IF i + Len(t) - 1 > Len(s) THEN 0
    ELSE IF OccursAt(s, i, t) THEN 1 + CountFrom(s, t, i + Len(t))
    ELSE CountFrom(s, t, i + 1)

CountOccurrences(s, t) == CountFrom(s, t, 1)

\* The number of "#" a stripped line starts with.
LeadingHashes(s) ==
    Cardinality({i \in 1..Len(s) : \A j \in 1..i : CharAt(s, j) = "#"})

\* re.match(r"^(#{1,6})\s+(.+)$", stripped): one to six "#", whitespace, and
\* a title (a stripped line does not end in whitespace).
MarkdownMatch(stripped) ==
    LET h == LeadingHashes(stripped)
    IN  /\ h \in 1..6
        /\ h < Len(stripped)
        /\ IsSpace(CharAt(stripped, h + 1))
        /\ \E i \in (h + 2)..Len(stripped) : ~IsSpace(CharAt(stripped, i))

MarkdownHeading(stripped) ==
    LET h == LeadingHashes(stripped)
        t == CHOOSE i \in (h + 2)..Len(stripped) :
                /\ ~IsSpace(CharAt(stripped, i))
                /\ \A j \in (h + 2)..(i - 1) : IsSpace(CharAt(stripped, j))
    IN  [level |-> h, title |-> SubSeq(stripped, t, Len(stripped))]

RstChars == {"=", "-", "~", "^", "\"", "'", "#", "*", "+", "<", ">"}

\* level_map.get(char, 3)
RstLevel(char) ==
    CASE char = "="  -> 1
      [] char = "-"  -> 2
      [] char = "~"  -> 3
      [] char = "^"  -> 4
      [] char = "\"" -> 5
      [] char = "'"  -> 6
      [] OTHER       -> 3

\* An RST title: a non-empty line whose next line is at least as long and
\* made of one repeated underline character.
RstMatch(lines, i) ==
    /\ i + 1 <= Len(lines)
    /\ Strip(lines[i]) # SubSeq(lines[i], 1, 0)
    /\ LET next_line == Strip(lines[i + 1])
       IN  /\ Len(next_line) >= Len(Strip(lines[i]))
           /\ Len(next_line) >= 1
           /\ \A j \in 1..Len(next_line) : CharAt(next_line, j) = CharAt(next_line, 1)
           /\ CharAt(next_line, 1) \in RstChars

RECURSIVE HeadingsFrom(_, _)
HeadingsFrom(lines, i) ==
    IF i > Len(lines) THEN <<>>
    ELSE LET stripped == Strip(lines[i])
         IN  (IF MarkdownMatch(stripped) THEN <<MarkdownHeading(stripped)>>
              ELSE IF RstMatch(lines, i)
                   THEN <<[level |-> RstLevel(CharAt(Strip(lines[i + 1]), 1)),
                           title |-> stripped]>>
                   ELSE <<>>)
             \o HeadingsFrom(lines, i + 1)

ExtractHeadings(content) == HeadingsFrom(SplitLines(content), 1)

\* os.path.basename
Basename(path) == SubSeq(path, LastIndexOf(path, "/", Len(path)) + 1, Len(path))

\* The bonus of the headings whose title contains the query.
HeadingBonus(query_lower, headings) ==
    SumSeq([i \in DOMAIN headings |->
              IF Contains(Lower(headings[i].title), query_lower)
              THEN Max(30 - headings[i].level * 5, 10) ELSE 0])

\* The recency bonus: age_days < 30, else age_days < 90.
RecencyBonus(last_modified) ==
    IF Now - last_modified < 30 * 86400 THEN 10
    ELSE IF Now - last_modified < 90 * 86400 THEN 5 ELSE 0

\* The score before the length penalty.
RawScore(query, content, matches, metadata) ==
    LET query_lower   == Lower(query)
        content_lower == Lower(content)
    IN  Len(matches) * 10
        + CountOccurrences(content_lower, query_lower) * 15
        + HeadingBonus(query_lower, ExtractHeadings(content))
        + (IF Contains(Lower(Basename(metadata.file_path)), query_lower) THEN 25 ELSE 0)
        + (IF metadata.doc_type = "rst" THEN 5 ELSE 0)
        + RecencyBonus(metadata.last_modified)

\* A length penalty that halves the score from 1000 words on.
LengthPenaltyFloor(score, word_count) ==
    IF word_count >= 1000
    THEN [num |-> score, den |-> 2]
    ELSE [num |-> score, den |-> 1]

\* score *= 0.5 + 0.5 * min(1000 / word_count, 1.0), when word_count > 0.
LengthPenalty(score, word_count) ==
    IF word_count > 1000
    THEN [num |-> score * (word_count + 1000), den |-> 2 * word_count]
    ELSE [num |-> score, den |-> 1]

\* A penalised score returned as it is.
NormalizeScoreUnbounded(score) == score

\* min(score, 100.0)
NormalizeScore(score) ==
    IF score.num <= 100 * score.den THEN score ELSE [num |-> 100, den |-> 1]

\* The sum clamped before the length penalty is applied.
CalculateClampedFirst(query, content, matches, metadata) ==
    LengthPenalty(Min(RawScore(query, content, matches, metadata), 100),
                  metadata.word_count)

CalculateRelevanceScore(query, content, matches, metadata) ==
    NormalizeScore(LengthPenalty(RawScore(query, content, matches, metadata),
                                 metadata.word_count))

ScoreQueries == {"wifi", "Init", "aa", ""}

ScoreContents ==
    {"", "wifi", "# WiFi\nwifi wifi", "Init\n====\ninit it",
     "aaa\n--\naaaa\n~~~~", "####### wifi\n  ## aa wifi  \n"}

ScorePaths == {"docs/wifi.rst", "api/WIFI/index.md", "init"}

ScoreDocTypes == {"rst", "md", "txt"}

ScoreTimes ==
    {Now + 86400, Now - 29 * 86400, Now - 30 * 86400, Now - 89 * 86400,
     Now - 90 * 86400, 0}

ScoreWordCounts == {0, 1, 1000, 1001, 2000, 100000}

ScoreInputs ==
    [query : ScoreQueries, content : ScoreContents,
     matches : {[i \in 1..n |-> i] : n \in 0..MaxMatches},
     file_path : ScorePaths, doc_type : ScoreDocTypes,
     last_modified : ScoreTimes, word_count : ScoreWordCounts]

IndexInit ==
    /\ document_index = EmptyDict
    /\ doc_order = <<>>
    /\ term_frequency = EmptyDict
    /\ document_frequency = EmptyDict
    /\ total_documents = 0
    /\ build_pc = "idle"
    /\ build_queue = <<>>
    /\ indexed_count = 0
    /\ last_files = NoFiles
    /\ nbuilds = 0
    /\ last_init = "none"
    /\ response = <<>>
    /\ RestIdle

InitScore ==
    /\ IndexInit
    /\ fn_in \in ScoreInputs
    /\ fn_out = <<>>

\* One call of calculate_relevance_score.
ApplyScore ==
    /\ fn_out = <<>>
    /\ fn_out' = <<CalculateRelevanceScore(fn_in.query, fn_in.content,
                                           fn_in.matches, fn_in)>>
    /\ UNCHANGED <<indexVars, restVars, fn_in>>

NextScore == ApplyScore

SpecScore == InitScore /\ [][NextScore]_vars

\* C8: calculate_relevance_score returns a value in [0, 100], for every
\* query, content, match list and metadata, whatever word_count >= 0 and
\* last_modified (a time in the future included).
C8_ScoreWithinBounds ==
    fn_out # <<>> =>
        /\ fn_out[1].den > 0
        /\ 0 <= fn_out[1].num
        /\ fn_out[1].num <= 100 * fn_out[1].den

\* C8 witness: a call whose file was modified in the future and whose sum of
\* bonuses, after the length penalty, is above 100.
C8_Witness ==
    /\ fn_out # <<>>
    /\ fn_in.last_modified > Now
    /\ fn_in.word_count > 1000
    /\ LET score == LengthPenalty(RawScore(fn_in.query, fn_in.content,
                                           fn_in.matches, fn_in),
                                  fn_in.word_count)
       IN  score.num > 100 * score.den
    /\ fn_out[1] = [num |-> 100, den |-> 1]

(***************************************************************************)
(* SearchEngine.fuzzy_match.  A threshold is a number of tenths; the       *)
(* argument is <<>> when the caller passes none (None in the code).        *)
(***************************************************************************)
MaxQueryLen == 2
MaxTextLen == 3

\* The strings of at most n characters of an alphabet.
RECURSIVE StringsUpTo(_, _)
StringsUpTo(alphabet, n) ==
    IF n = 0 THEN {SubSeq("a", 1, 0)}
    ELSE LET shorter == StringsUpTo(alphabet, n - 1)
         IN  shorter \cup {s \o c : s \in shorter, c \in alphabet}

\* SequenceMatcher.find_longest_match on a[alo:ahi] and b[blo:bhi], without
\* junk: the longest common block, the earliest in a among the longest, the
\* earliest in b among those.  k = 0 when there is none.
FindLongestMatch(a, b, alo, ahi, blo, bhi) ==
    LET blocks == {bl \in [i : alo..(ahi - 1), j : blo..(bhi - 1), k : 1..Len(a)] :
                      /\ bl.i + bl.k <= ahi
                      /\ bl.j + bl.k <= bhi
                      /\ Slice(a, bl.i, bl.i + bl.k) = Slice(b, bl.j, bl.j + bl.k)}
    IN  IF blocks = {} THEN [i |-> alo, j |-> blo, k |-> 0]
        ELSE CHOOSE bl \in blocks :
                \A o \in blocks :
                    \/ bl.k > o.k
                    \/ bl.k = o.k /\ bl.i < o.i
                    \/ bl.k = o.k /\ bl.i = o.i /\ bl.j <= o.j

\* SequenceMatcher.get_matching_blocks: the total size of the blocks found
\* by taking the longest match and then matching to its left and its right.
RECURSIVE MatchingSize(_, _, _, _, _, _)
MatchingSize(a, b, alo, ahi, blo, bhi) ==
    LET bl == FindLongestMatch(a, b, alo, ahi, blo, bhi)
    IN  IF bl.k = 0 THEN 0
        ELSE bl.k + MatchingSize(a, b, alo, bl.i, blo, bl.j)
                  + MatchingSize(a, b, bl.i + bl.k, ahi, bl.j + bl.k, bhi)

\* SequenceMatcher.ratio() >= threshold: ratio is 2.0 * matches / length,
\* and 1.0 for two empty strings.
RatioAtLeast(a, b, threshold) ==
    LET length  == Len(a) + Len(b)
        matches == MatchingSize(a, b, 0, Len(a), 0, Len(b))
    IN  IF length = 0 THEN 10 >= threshold
        ELSE 20 * matches >= threshold * length

\* threshold = threshold or self.config.fuzzy_threshold
EffectiveThreshold(threshold, fuzzy_threshold) ==
    IF threshold = <<>> \/ threshold[1] = 0 THEN fuzzy_threshold ELSE threshold[1]

FuzzyMatch(query, text, threshold, fuzzy_threshold) ==
    LET query_norm == NormalizeText(query)
        text_norm  == NormalizeText(text)
    IN  \/ Contains(text_norm, query_norm)
        \/ RatioAtLeast(query_norm, text_norm,
                        EffectiveThreshold(threshold, fuzzy_threshold))

FuzzyAlphabet == {"a", "b", "B", " "}

\* None, 0.0, 0.5, 1.0
FuzzyThresholds == {<<>>, <<0>>, <<5>>, <<10>>}

\* SearchConfig.fuzzy_threshold: the default 0.6, and 0.9.
FuzzyConfigs == {6, 9}

FuzzyInputs ==
    [query : StringsUpTo(FuzzyAlphabet, MaxQueryLen),
     text : StringsUpTo(FuzzyAlphabet, MaxTextLen),
     threshold : FuzzyThresholds, fuzzy_threshold : FuzzyConfigs]

InitFuzzy ==
    /\ IndexInit
    /\ fn_in \in FuzzyInputs
    /\ fn_out = <<>>

\* One call of fuzzy_match.
ApplyFuzzy ==
    /\ fn_out = <<>>
    /\ fn_out' = <<FuzzyMatch(fn_in.query, fn_in.text, fn_in.threshold,
                              fn_in.fuzzy_threshold)>>
    /\ UNCHANGED <<indexVars, restVars, fn_in>>

NextFuzzy == ApplyFuzzy

SpecFuzzy == InitFuzzy /\ [][NextFuzzy]_vars

\* C9: fuzzy_match returns true exactly when the normalized query is a
\* substring of the normalized text or the similarity ratio of the two is at
\* least the threshold the caller passed, 0.0 and 1.0 included; the
\* configured fuzzy_threshold counts only when the caller passed none.
C9_FuzzyUsesPassedThreshold ==
    fn_out # <<>> =>
        LET query_norm == NormalizeText(fn_in.query)
            text_norm  == NormalizeText(fn_in.text)
            threshold  == IF fn_in.threshold = <<>> THEN fn_in.fuzzy_threshold
                          ELSE fn_in.threshold[1]
        IN  fn_out[1] <=> (\/ Contains(text_norm, query_norm)
                           \/ RatioAtLeast(query_norm, text_norm, threshold))

(***************************************************************************)
(* SearchEngine.highlight_matches.  Positions are 0-based, as in the code. *)
(***************************************************************************)
MaxHighlight == 2

\* str.find(t, start): the first position >= start where t occurs, or -1.
Find(s, t, start) ==
    LET found == {p \in start..(Len(s) - Len(t)) : OccursAt(s, p + 1, t)}
    IN  IF found = {} THEN -1 ELSE CHOOSE p \in found : \A o \in found : p <= o

\* The while loop: the spans (pos, pos + len(query)) of the occurrences of
\* query_lower in text_lower, searched from one past the last one found.
RECURSIVE FindMatches(_, _, _, _, _, _)
FindMatches(text_lower, query_lower, query, start, count, max_highlight) ==
    IF ~(start < Len(text_lower) /\ count < max_highlight) THEN <<>>
    ELSE LET pos == Find(text_lower, query_lower, start)
         IN  IF pos = -1 THEN <<>>
             ELSE <<[start_pos |-> pos, end_pos |-> pos + Len(query)]>>
                  \o FindMatches(text_lower, query_lower, query, pos + 1,
                                 count + 1, max_highlight)

\* The for loop and the remaining text: the slices of text between the
\* spans, each span wrapped in "**".
RECURSIVE BuildHighlighted(_, _, _)
BuildHighlighted(text, matches, last_end) ==
    IF matches = <<>> THEN Slice(text, last_end, Len(text))
    ELSE Slice(text, last_end, Head(matches).start_pos)
         \o "**" \o Slice(text, Head(matches).start_pos, Head(matches).end_pos)
         \o "**" \o BuildHighlighted(text, Tail(matches), Head(matches).end_pos)

HighlightMatches(text, query, max_highlight) ==
    IF Len(query) = 0 \/ Len(text) = 0 THEN text
    ELSE LET matches == FindMatches(Lower(text), Lower(query), query, 0, 0,
                                    max_highlight)
         IN  IF matches = <<>> THEN text
             ELSE BuildHighlighted(text, matches, 0)

HighlightAlphabet == {"a", "A", "b", "$"}

HighlightTexts ==
    StringsUpTo(HighlightAlphabet, MaxTextLen)
        \cup {"wifi wifi wifi", "WiFi and wifi", "$stanbul wifi"}

HighlightQueries == StringsUpTo(HighlightAlphabet, MaxQueryLen) \cup {"wifi"}

HighlightInputs ==
    [text : HighlightTexts, query : HighlightQueries,
     max_highlight : 0..MaxHighlight]

InitHighlight ==
    /\ IndexInit
    /\ fn_in \in HighlightInputs
    /\ fn_out = <<>>

\* One call of highlight_matches.
ApplyHighlight ==
    /\ fn_out = <<>>
    /\ fn_out' = <<HighlightMatches(fn_in.text, fn_in.query, fn_in.max_highlight)>>
    /\ UNCHANGED <<indexVars, restVars, fn_in>>

NextHighlight == ApplyHighlight

SpecHighlight == InitHighlight /\ [][NextHighlight]_vars

\* The 0-based positions of text where the query occurs, case-insensitively.
Occurrences(text, query) ==
    {p \in 0..(Len(text) - Len(query)) :
        Lower(Slice(text, p, p + Len(query))) = Lower(query)}

\* The k-th smallest element of a set of numbers.
Nth(set, k) == CHOOSE p \in set : Cardinality({o \in set : o <= p}) = k

\* The text with the first count of its occurrences of the query wrapped.
Wrapped(text, query, count) ==
    BuildHighlighted(text,
                     [k \in 1..count |->
                        [start_pos |-> Nth(Occurrences(text, query), k),
                         end_pos   |-> Nth(Occurrences(text, query), k) + Len(query)]],
                     0)

\* C10: highlight_matches wraps the first min(n, max_highlight) of the n
\* case-insensitive occurrences of the query in the text, in left-to-right
\* order, leaves the later ones unmarked, and returns the text unchanged
\* when the query or the text is empty or nothing matches.
C10_HighlightsFirstOccurrences ==
    fn_out # <<>> =>
        LET n == Cardinality(Occurrences(fn_in.text, fn_in.query))
        IN  IF Len(fn_in.query) = 0 \/ Len(fn_in.text) = 0 \/ n = 0
            THEN fn_out[1] = fn_in.text
            ELSE fn_out[1] = Wrapped(fn_in.text, fn_in.query,
                                     Min(n, fn_in.max_highlight))

(***************************************************************************)
(* TextProcessor.normalize_text, called on a text and on the same text     *)
(* followed by one punctuation character.                                  *)
(***************************************************************************)
NormalizeAlphabet == {"a", "B", "1", " ", "\t", "!", ".", "-", "_", "$"}

NormalizeSuffixes == {"!", ",", "?", ".", "-", "_"}

NormalizeInputs ==
    [text : StringsUpTo(NormalizeAlphabet, MaxTextLen), suffix : NormalizeSuffixes]

InitNormalize ==
    /\ IndexInit
    /\ fn_in \in NormalizeInputs
    /\ fn_out = <<>>

\* normalize_text(text) and normalize_text(text + suffix).
ApplyNormalize ==
    /\ fn_out = <<>>
    /\ fn_out' = <<[bare       |-> NormalizeText(fn_in.text),
                    punctuated |-> NormalizeText(fn_in.text \o fn_in.suffix)]>>
    /\ UNCHANGED <<indexVars, restVars, fn_in>>

NextNormalize == ApplyNormalize

SpecNormalize == InitNormalize /\ [][NextNormalize]_vars

IsLowerAlnum(c) ==
    \/ \E i \in 1..Len(LowerCase) : CharAt(LowerCase, i) = c
    \/ \E i \in 1..Len(Digits) : CharAt(Digits, i) = c

\* Terms separated by single spaces: no space at either end, no two in a row.
SingleSpaced(s) ==
    /\ Len(s) > 0 => CharAt(s, 1) # " " /\ CharAt(s, Len(s)) # " "
    /\ \A i \in 1..(Len(s) - 1) : ~(CharAt(s, i) = " " /\ CharAt(s, i + 1) = " ")

\* C11 as stated: the result consists only of lower-case alphanumeric terms
\* separated by single spaces, and a word followed by a punctuation
\* character yields the same terms as the bare word.
C11_OnlyAlphanumericTerms ==
    fn_out # <<>> =>
        /\ SingleSpaced(fn_out[1].bare)
        /\ \A i \in 1..Len(fn_out[1].bare) :
              IsLowerAlnum(CharAt(fn_out[1].bare, i)) \/ CharAt(fn_out[1].bare, i) = " "
        /\ fn_out[1].punctuated = fn_out[1].bare

\* C11 amended: the result consists of terms separated by single spaces
\* whose characters are lower-case letters, digits, "_", "-" and "."; a text
\* followed by a punctuation character other than "_", "-" and "." yields
\* the same result as the bare text, and one followed by "_", "-" or "."
\* keeps that character in its last term.
C11_KeepsBasicPunctuation ==
    fn_out # <<>> =>
        /\ SingleSpaced(fn_out[1].bare)
        /\ \A i \in 1..Len(fn_out[1].bare) :
              \/ IsLowerAlnum(CharAt(fn_out[1].bare, i))
              \/ CharAt(fn_out[1].bare, i) \in {" ", "_", "-", "."}
        /\ fn_in.suffix \notin {"_", "-", "."} =>
              fn_out[1].punctuated = fn_out[1].bare
        /\ fn_in.suffix \in {"_", "-", "."} =>
              /\ fn_out[1].punctuated # fn_out[1].bare
              /\ CharAt(fn_out[1].punctuated, Len(fn_out[1].punctuated)) = fn_in.suffix

\* C11 witness: an upper-case word after punctuation and a tab, followed by
\* "!", normalized to the bare lower-case word.
C11_Witness ==
    /\ fn_out # <<>>
    /\ fn_in.text = "!\tB"
    /\ fn_in.suffix = "!"
    /\ fn_out[1].bare = "b"
    /\ fn_out[1].punctuated = "b"

(***************************************************************************)
(* SearchEngine.expand_query and get_similar_terms.  Both return           *)
(* list(set(...)): the result is a set of strings.                         *)
(***************************************************************************)
\* esp_expansions
EspExpansions ==
    <<[key |-> "wifi",      synonyms |-> {"wi-fi", "wireless", "wlan"}],
      [key |-> "gpio",      synonyms |-> {"pin", "input", "output", "digital"}],
      [key |-> "uart",      synonyms |-> {"serial", "communication"}],
      [key |-> "spi",       synonyms |-> {"serial peripheral interface"}],
      [key |-> "i2c",       synonyms |-> {"iic", "two wire"}],
      [key |-> "bluetooth", synonyms |-> {"ble", "bt"}],
      [key |-> "nvs",       synonyms |-> {"non-volatile storage", "flash"}],
      [key |-> "freertos",  synonyms |-> {"rtos", "real-time"}]>>

\* term_mappings of get_similar_terms
TermMappings ==
    <<[key |-> "wifi",      synonyms |-> {"wireless", "wlan", "ap", "sta", "station"}],
      [key |-> "gpio",      synonyms |-> {"pin", "digital", "input", "output"}],
      [key |-> "uart",      synonyms |-> {"serial", "usart", "communication"}],
      [key |-> "spi",       synonyms |-> {"serial", "peripheral", "interface"}],
      [key |-> "i2c",       synonyms |-> {"iic", "two-wire", "twi"}],
      [key |-> "bluetooth", synonyms |-> {"ble", "bt", "classic"}],
      [key |-> "nvs",       synonyms |-> {"storage", "flash", "partition"}],
      [key |-> "freertos",  synonyms |-> {"rtos", "task", "scheduler"}],
      [key |-> "esp32",     synonyms |-> {"esp-32", "espressif"}],
      [key |-> "idf",       synonyms |-> {"framework", "sdk"}]>>

\* The plural or singular form appended to the expansion.
QueryVariation(query_lower) ==
    IF Len(query_lower) > 3 /\ CharAt(query_lower, Len(query_lower)) = "s"
    THEN SubSeq(query_lower, 1, Len(query_lower) - 1)
    ELSE query_lower \o "s"

\* The synonyms of the keys the query contains.
KeySynonyms(query_lower) ==
    UNION {EspExpansions[i].synonyms :
              i \in {j \in DOMAIN EspExpansions :
                        Contains(query_lower, EspExpansions[j].key)}}

\* An expansion without the synonym table.
ExpandQueryNoSynonyms(query) == {query, QueryVariation(Lower(query))}

ExpandQuery(query) ==
    {query} \cup KeySynonyms(Lower(query)) \cup {QueryVariation(Lower(query))}

GetSimilarTerms(term) ==
    LET term_lower == Lower(term)
        direct  == UNION {TermMappings[i].synonyms :
                             i \in {j \in DOMAIN TermMappings :
                                       TermMappings[j].key = term_lower}}
        reverse == UNION {{TermMappings[i].key}
                             \cup (TermMappings[i].synonyms \ {term_lower}) :
                             i \in {j \in DOMAIN TermMappings :
                                       term_lower \in TermMappings[j].synonyms}}
    IN  direct \cup reverse

ExpandWords ==
    {EspExpansions[i].key : i \in DOMAIN EspExpansions}
        \cup UNION {EspExpansions[i].synonyms : i \in DOMAIN EspExpansions}
        \cup UNION {TermMappings[i].synonyms : i \in DOMAIN TermMappings}
        \cup {"", "abc", "bus", "WiFi", "GPIO", "Wireless"}

ExpandInputs ==
    [fn : {"expand_query", "get_similar_terms"},
     query : {p \o w \o x : p \in {"", "esp "}, w \in ExpandWords,
                            x \in {"", "s", " driver"}}]

InitExpand ==
    /\ IndexInit
    /\ fn_in \in ExpandInputs
    /\ fn_out = <<>>

\* One call of expand_query.
ApplyExpand ==
    /\ fn_out = <<>>
    /\ fn_in.fn = "expand_query"
    /\ fn_out' = <<ExpandQuery(fn_in.query)>>
    /\ UNCHANGED <<indexVars, restVars, fn_in>>

\* One call of get_similar_terms.
ApplySimilar ==
    /\ fn_out = <<>>
    /\ fn_in.fn = "get_similar_terms"
    /\ fn_out' = <<GetSimilarTerms(fn_in.query)>>
    /\ UNCHANGED <<indexVars, restVars, fn_in>>

NextExpand == ApplyExpand \/ ApplySimilar

SpecExpand == InitExpand /\ [][NextExpand]_vars

\* The keys of esp_expansions that have the query among their synonyms.
OwningKeys(query_lower) ==
    {i \in DOMAIN EspExpansions : query_lower \in EspExpansions[i].synonyms}

\* C12 as stated: expand_query is bidirectional; a query that contains a key
\* gets the key's synonyms, and a query that is a synonym gets the owning
\* key and the sibling synonyms.
C12_ExpandQueryBidirectional ==
    (fn_out # <<>> /\ fn_in.fn = "expand_query") =>
        /\ \A i \in DOMAIN EspExpansions :
              Contains(Lower(fn_in.query), EspExpansions[i].key)
                 => EspExpansions[i].synonyms \subseteq fn_out[1]
        /\ \A i \in OwningKeys(Lower(fn_in.query)) :
              /\ EspExpansions[i].key \in fn_out[1]
              /\ EspExpansions[i].synonyms \subseteq fn_out[1]

\* C12 amended: expand_query looks its table up in one direction only; the
\* result is the query, the synonyms of every key the lower-cased query
\* contains and one plural or singular form, so a query that is a synonym
\* and contains no key gets neither the owning key nor the siblings.  The
\* lookup in both directions is get_similar_terms, on its own table: a term
\* that is a key gets the key's synonyms, a term that is a synonym gets the
\* owning key and the siblings.
C12_ExpandQueryForwardOnly ==
    /\ (fn_out # <<>> /\ fn_in.fn = "expand_query") =>
          /\ fn_in.query \in fn_out[1]
          /\ \A i \in DOMAIN EspExpansions :
                Contains(Lower(fn_in.query), EspExpansions[i].key)
                   => EspExpansions[i].synonyms \subseteq fn_out[1]
          /\ KeySynonyms(Lower(fn_in.query)) = {} =>
                /\ Cardinality(fn_out[1]) <= 2
                /\ \A i \in OwningKeys(Lower(fn_in.query)) :
                      EspExpansions[i].key \notin fn_out[1]
    /\ (fn_out # <<>> /\ fn_in.fn = "get_similar_terms") =>
          \A i \in DOMAIN TermMappings :
              /\ TermMappings[i].key = Lower(fn_in.query)
                    => TermMappings[i].synonyms \subseteq fn_out[1]
              /\ Lower(fn_in.query) \in TermMappings[i].synonyms
                    => /\ TermMappings[i].key \in fn_out[1]
                       /\ (TermMappings[i].synonyms \ {Lower(fn_in.query)})
                             \subseteq fn_out[1]

\* C12 witness: expand_query called with a synonym of "wifi" returns the
\* query and its singular form only.
C12_Witness ==
    /\ fn_out # <<>>
    /\ fn_in.fn = "expand_query"
    /\ fn_in.query = "Wireless"
    /\ fn_out[1] = {"Wireless", "wireles"}

(***************************************************************************)
(* ValidationUtils.validate_query and ESPIDFDocsExplorer.search_docs over  *)
(* a tree of .txt files (whose content _process_file_content leaves as it  *)
(* is).  An optional argument is <<>> when it is not passed (None).        *)
(***************************************************************************)
MaxSearchLimit == 4
MaxOffset == 2

\* dangerous_patterns
DangerousPatterns ==
    <<"../", "..\\", "/etc/", "/proc/", "C:\\", "<script", "javascript:",
      "data:", "file://", "ftp://", "ldap://">>

\* A validation whose length test is len(query) >= max_length.
ValidateQueryShorter(query, max_length) ==
    IF Len(query) = 0 \/ Len(Strip(query)) = 0
    THEN <<"Query cannot be empty">>
    ELSE IF Len(query) >= max_length
    THEN <<"Query too long">>
    ELSE <<>>

\* validate_query: <<>> when it returns, the ValueError's message when it
\* raises.
ValidateQuery(query, max_length) ==
    IF Len(query) = 0 \/ Len(Strip(query)) = 0
    THEN <<"Query cannot be empty">>
    ELSE IF Len(query) > max_length
    THEN <<"Query too long">>
    ELSE IF \E i \in DOMAIN DangerousPatterns :
               Contains(Lower(query), DangerousPatterns[i])
    THEN <<"Query contains invalid pattern">>
    ELSE <<>>

\* min(limit or self.config.max_results, self.config.max_results)
EffectiveLimit(limit, max_results) ==
    Min(IF limit = <<>> \/ limit[1] = 0 THEN max_results ELSE limit[1],
        max_results)

\* Python seq[lo:hi] for 0 <= lo.
SliceSeq(seq, lo, hi) == SubSeq(seq, lo + 1, Min(hi, Len(seq)))

\* _process_file_content of a file that is neither .rst nor .md.
ProcessFileContent(file) == file.content

\* _extract_matches_from_content: the numbers of the lines that contain the
\* query, up to max_matches_per_file of them.
ExtractMatches(content, query, max_matches_per_file) ==
    LET lines == SplitLines(content)
        hits  == {i \in DOMAIN lines : Contains(Lower(lines[i]), Lower(query))}
        count == Min(Cardinality(hits), max_matches_per_file)
    IN  [k \in 1..count |-> CHOOSE i \in hits : Cardinality({j \in hits : j <= i}) = k]

\* create_document_metadata
CreateDocumentMetadata(file) ==
    [file_path |-> "/docs/" \o file.path, doc_type |-> "txt",
     last_modified |-> file.last_modified,
     word_count |-> Len(Split(file.content))]

\* The body of the loop over the files: the result of one file, if any.
FileResults(query, file, config) ==
    IF ~FuzzyMatch(query, ProcessFileContent(file), <<>>, config.fuzzy_threshold)
    THEN <<>>
    ELSE LET matches == ExtractMatches(file.content, query, config.max_matches_per_file)
         IN  IF matches = <<>> THEN <<>>
             ELSE <<[file    |-> file.path,
                     matches |-> matches,
                     score   |-> CalculateRelevanceScore(query, ProcessFileContent(file),
                                                         matches,
                                                         CreateDocumentMetadata(file))]>>

RECURSIVE AllResults(_, _, _)
AllResults(query, files, config) ==
    IF files = <<>> THEN <<>>
    ELSE FileResults(query, Head(files), config) \o AllResults(query, Tail(files), config)

ScoreLess(a, b) == a.num * b.den < b.num * a.den

\* all_results.sort(key=score, reverse=True): stable, descending.
RECURSIVE SortResults(_)
SortResults(results) ==
    IF Len(results) <= 1 THEN results
    ELSE LET rest == SortResults(Tail(results))
             k    == Cardinality({i \in DOMAIN rest :
                                     ScoreLess(Head(results).score, rest[i].score)})
         IN  SubSeq(rest, 1, k) \o <<Head(results)>> \o SubSeq(rest, k + 1, Len(rest))

\* search_docs: the exception it raises, or the response it returns.
SearchDocs(query, limit, offset, files, config) ==
    LET invalid == ValidateQuery(query, config.max_query_length)
    IN  IF invalid # <<>>
        THEN [raised |-> TRUE, error |-> invalid[1], results |-> <<>>,
              results_returned |-> 0, total_results_found |-> 0,
              total_files_scanned |-> 0]
        ELSE LET all_results == SortResults(AllResults(query, files, config))
                 paginated   == SliceSeq(all_results, offset,
                                         offset + EffectiveLimit(limit, config.max_results))
             IN  [raised |-> FALSE, error |-> "", results |-> paginated,
                  results_returned |-> Len(paginated),
                  total_results_found |-> Len(all_results),
                  total_files_scanned |-> Len(files)]

\* ServerConfig defaults
DefaultMaxQueryLength == 100
DefaultMaxResults == 20
DefaultMaxMatchesPerFile == 5
DefaultFuzzyThreshold == 6

SearchConfigs ==
    [max_query_length : {4, DefaultMaxQueryLength},
     max_results : {1, 3, DefaultMaxResults},
     max_matches_per_file : {DefaultMaxMatchesPerFile},
     fuzzy_threshold : {DefaultFuzzyThreshold}]

SearchCorpus ==
    <<[path |-> "wifi.txt",     content |-> "wifi setup\nscan WiFi",
       last_modified |-> Now - 86400],
      [path |-> "api/gpio.txt", content |-> "gpio pin\nwifi pin",
       last_modified |-> Now - 40 * 86400],
      [path |-> "uart.txt",     content |-> "uart\nwifi uart",
       last_modified |-> 0],
      [path |-> "notes.txt",    content |-> "WiFi",
       last_modified |-> Now - 86400]>>

\* n copies of a string.
RECURSIVE Repeat(_, _)
Repeat(s, n) == IF n = 0 THEN SubSeq(s, 1, 0) ELSE s \o Repeat(s, n - 1)

\* Queries of the lengths around max_query_length, whitespace, and queries
\* around every disallowed pattern, in both cases.
ValidationQueries ==
    {Repeat("a", n) : n \in {3, 4, 5, DefaultMaxQueryLength - 1,
                             DefaultMaxQueryLength, DefaultMaxQueryLength + 1}}
        \cup {"", " ", "\t\n ", Repeat("wifi ", 20), " " \o Repeat("wifi ", 20)}
        \cup {p \o w \o x : p \in {"", "wifi "},
                            w \in Range(DangerousPatterns)
                                  \cup {"..", "/ETC/", "c:\\", "<SCRIPT",
                                        "JavaScript:", "DATA:", "FILE://", "etc"},
                            x \in {"", "x"}}

SearchQueries == {"wifi", "WiFi", "gpio", "wifis", "pin", "", " ", "../", "C:\\"}

SearchLimits == {<<>>} \cup {<<n>> : n \in 0..MaxSearchLimit}

SearchInputs ==
    [query : ValidationQueries, limit : {<<>>}, offset : {0},
     files : {<<>>, SearchCorpus},
     config : {c \in SearchConfigs : c.max_results = DefaultMaxResults}]
        \cup
    [query : SearchQueries, limit : SearchLimits, offset : 0..MaxOffset,
     files : {SearchCorpus}, config : SearchConfigs]

InitSearch ==
    /\ IndexInit
    /\ fn_in \in SearchInputs
    /\ fn_out = <<>>

\* One call of search_docs.
ApplySearch ==
    /\ fn_out = <<>>
    /\ fn_out' = <<SearchDocs(fn_in.query, fn_in.limit, fn_in.offset,
                              fn_in.files, fn_in.config)>>
    /\ UNCHANGED <<indexVars, restVars, fn_in>>

NextSearch == ApplySearch

SpecSearch == InitSearch /\ [][NextSearch]_vars

\* A query without a character other than whitespace.
Blank(query) == \A i \in 1..Len(query) : IsSpace(CharAt(query, i))

\* A query that contains a disallowed pattern, compared case-insensitively.
HasDisallowedPattern(query) ==
    \E i \in DOMAIN DangerousPatterns :
        Contains(Lower(query), Lower(DangerousPatterns[i]))

\* C13: search_docs raises the validation error, and returns no result, for
\* every empty or whitespace-only query and every query longer than
\* max_query_length; a query of exactly max_query_length characters without
\* a disallowed pattern is accepted.
C13_QueryLengthValidated ==
    fn_out # <<>> =>
        /\ Blank(fn_in.query) =>
              /\ fn_out[1].raised
              /\ fn_out[1].error = "Query cannot be empty"
              /\ fn_out[1].results = <<>>
        /\ Len(fn_in.query) > fn_in.config.max_query_length =>
              /\ fn_out[1].raised
              /\ fn_out[1].results = <<>>
        /\ (/\ Len(fn_in.query) = fn_in.config.max_query_length
            /\ ~Blank(fn_in.query)
            /\ ~HasDisallowedPattern(fn_in.query)) => ~fn_out[1].raised

\* C13 witness: a query of 101 characters against max_query_length 100, on a
\* tree with documents, raises "Query too long".
C13_Witness ==
    /\ fn_out # <<>>
    /\ Len(fn_in.query) = 101
    /\ fn_in.config.max_query_length = 100
    /\ fn_in.files # <<>>
    /\ fn_out[1].raised
    /\ fn_out[1].error = "Query too long"

\* C14: validate_query raises for every query that contains one of the
\* disallowed patterns, compared case-insensitively; none is accepted.
C14_DisallowedPatternsRejected ==
    (fn_out # <<>> /\ HasDisallowedPattern(fn_in.query)) => fn_out[1].raised

\* C16: search_docs returns at most limit results, for every limit >= 0 the
\* caller passes, and never more than max_results; results_returned is the
\* number of results returned.
C16_AtMostLimitResults ==
    (fn_out # <<>> /\ ~fn_out[1].raised) =>
        /\ fn_in.limit # <<>> => Len(fn_out[1].results) <= fn_in.limit[1]
        /\ Len(fn_out[1].results) <= fn_in.config.max_results
        /\ fn_out[1].results_returned = Len(fn_out[1].results)

(***************************************************************************)
(* ValidationUtils.is_safe_path and ESPIDFDocsExplorer.read_doc, on a file *)
(* system without symbolic links.  A path is a string; its parts are the   *)
(* names between the "/".                                                  *)
(***************************************************************************)
MaxPathParts == 3

\* s.split(sep) for a separator of one character.
SplitOn(s, sep) ==
    LET seps   == {i \in 1..Len(s) : CharAt(s, i) = sep}
        n      == Cardinality(seps)
        nth(k) == IF k = 0 THEN 0
                  ELSE IF k = n + 1 THEN Len(s) + 1
                  ELSE CHOOSE i \in seps : Cardinality({j \in seps : j <= i}) = k
    IN  [k \in 1..(n + 1) |-> SubSeq(s, nth(k - 1) + 1, nth(k) - 1)]

\* The parts of a path: pathlib drops empty and "." parts.
PathParts(path) ==
    SelectSeq(SplitOn(path, "/"), LAMBDA part : Len(part) > 0 /\ part # ".")

\* str(Path) of an absolute path given by its parts.
RECURSIVE PathString(_)
PathString(parts) ==
    IF Len(parts) = 0 THEN "/"
    ELSE IF Len(parts) = 1 THEN "/" \o parts[1]
    ELSE PathString(SubSeq(parts, 1, Len(parts) - 1)) \o "/" \o parts[Len(parts)]

\* base_path / file_path: an absolute file_path replaces the base.
JoinPath(base_path, file_path) ==
    IF Len(file_path) > 0 /\ CharAt(file_path, 1) = "/" THEN file_path
    ELSE base_path \o "/" \o file_path

\* Path.resolve(): ".." removes the part before it (none at the root).
RECURSIVE ResolveParts(_, _)
ResolveParts(parts, resolved) ==
    IF Len(parts) = 0 THEN resolved
    ELSE IF Head(parts) = ".."
    THEN ResolveParts(Tail(parts), SubSeq(resolved, 1, Len(resolved) - 1))
    ELSE ResolveParts(Tail(parts), Append(resolved, Head(parts)))

Resolve(path) == ResolveParts(PathParts(path), <<>>)

\* str.startswith
StartsWith(s, prefix) == OccursAt(s, 1, prefix)

\* A test on whole parts: the base's parts are the first parts of the path.
IsSafePathByParts(file_path, base_path) ==
    LET full == Resolve(JoinPath(base_path, file_path))
        base == Resolve(base_path)
    IN  Len(full) >= Len(base) /\ SubSeq(full, 1, Len(base)) = base

\* is_safe_path: str(full_path).startswith(str(base_resolved))
IsSafePath(file_path, base_path) ==
    StartsWith(PathString(Resolve(JoinPath(base_path, file_path))),
               PathString(Resolve(base_path)))

\* Path(file_path).suffix
Suffix(file_path) ==
    LET parts == PathParts(file_path)
        name  == IF Len(parts) = 0 THEN SubSeq(file_path, 1, 0) ELSE parts[Len(parts)]
        dot   == LastIndexOf(name, ".", Len(name))
    IN  IF name = ".." \/ dot <= 1 THEN SubSeq(file_path, 1, 0)
        ELSE SubSeq(name, dot, Len(name))

\* allowed_extensions
AllowedExtensions == {".rst", ".md", ".txt"}

\* _validate_file_path: <<>> when it returns, the error when it raises.
ValidateFilePath(file_path, docs_path, enable_path_validation) ==
    IF enable_path_validation /\ ~IsSafePath(file_path, docs_path)
    THEN <<"Unsafe file path">>
    ELSE IF Suffix(file_path) \notin AllowedExtensions
    THEN <<"File must have one of these extensions">>
    ELSE <<>>

\* The directories and the files of the machine.
Directories ==
    {"/", "/srv", "/srv/docs", "/srv/docs/api", "/srv/docs-private", "/srv/other"}

FileContents ==
    [p \in {"/srv/docs/a.md", "/srv/docs/api/wifi.rst",
            "/srv/docs-private/secret.md", "/srv/other/x.md"} |->
        CASE p = "/srv/docs/a.md"              -> "inside"
          [] p = "/srv/docs/api/wifi.rst"      -> "wifi"
          [] p = "/srv/docs-private/secret.md" -> "SECRET"
          [] OTHER                             -> "OTHER"]

DocsPath == "/srv/docs"

\* The file the operating system reaches by following the parts of a path
\* from the root, "" when a part does not exist.
RECURSIVE Follow(_, _)
Follow(parts, at) ==
    IF Len(parts) = 0 THEN PathString(at)
    ELSE IF PathString(at) \notin Directories THEN SubSeq("a", 1, 0)
    ELSE IF Head(parts) = ".."
    THEN Follow(Tail(parts), SubSeq(at, 1, Len(at) - 1))
    ELSE Follow(Tail(parts), Append(at, Head(parts)))

\* read_doc: the exception it raises, or the content it returns and the
\* file it was read from.
ReadDoc(file_path, docs_path, enable_path_validation) ==
    LET invalid == ValidateFilePath(file_path, docs_path, enable_path_validation)
        target  == Follow(PathParts(JoinPath(docs_path, file_path)), <<>>)
    IN  IF invalid # <<>>
        THEN [raised |-> TRUE, error |-> invalid[1], content |-> "", read |-> ""]
        ELSE IF target \notin Directories /\ target \notin DOMAIN FileContents
        THEN [raised |-> TRUE, error |-> "File not found", content |-> "", read |-> ""]
        ELSE IF target \in Directories
        THEN [raised |-> TRUE, error |-> "Path is not a file", content |-> "", read |-> ""]
        ELSE [raised |-> FALSE, error |-> "", content |-> FileContents[target],
              read |-> target]

PathNames ==
    {"..", ".", "a.md", "api", "wifi.rst", "srv", "docs", "docs-private",
     "secret.md", "other", "x.md", "passwd"}

\* The paths of at most n names, relative ones and, with a leading "/",
\* absolute ones.
RECURSIVE RelativePaths(_)
RelativePaths(n) ==
    IF n = 1 THEN PathNames
    ELSE RelativePaths(n - 1)
         \cup {p \o "/" \o name : p \in RelativePaths(n - 1), name \in PathNames}

ReadInputs ==
    [file_path : {""} \cup RelativePaths(MaxPathParts)
                      \cup {"/" \o p : p \in RelativePaths(MaxPathParts)},
     enable_path_validation : {TRUE}]

InitRead ==
    /\ IndexInit
    /\ fn_in \in ReadInputs
    /\ fn_out = <<>>

\* One call of read_doc.
ApplyRead ==
    /\ fn_out = <<>>
    /\ fn_out' = <<[safe |-> IsSafePath(fn_in.file_path, DocsPath),
                    doc  |-> ReadDoc(fn_in.file_path, DocsPath,
                                     fn_in.enable_path_validation)]>>
    /\ UNCHANGED <<indexVars, restVars, fn_in>>

NextRead == ApplyRead

SpecRead == InitRead /\ [][NextRead]_vars

\* C15: with path validation enabled, for every file_path whose resolved
\* location is outside the docs_path tree, is_safe_path returns false and
\* read_doc raises without reading the file.
C15_ReadsOnlyInsideDocsPath ==
    (/\ fn_out # <<>>
     /\ fn_in.enable_path_validation
     /\ ~IsSafePathByParts(fn_in.file_path, DocsPath)) =>
        /\ ~fn_out[1].safe
        /\ fn_out[1].doc.raised
        /\ fn_out[1].doc.read = ""

(***************************************************************************)
(* TextProcessor.clean_rst_content, and the match test search_docs makes   *)
(* on the cleaned content of an .rst file.                                 *)
(***************************************************************************)
MaxRstLines == 3

\* "\n".join(lines)
RECURSIVE JoinLines(_)
JoinLines(lines) ==
    IF Len(lines) = 0 THEN ""
    ELSE IF Len(lines) = 1 THEN lines[1]
    ELSE lines[1] \o "\n" \o JoinLines(Tail(lines))

\* str.endswith
EndsWith(s, suffix) == OccursAt(s, Len(s) - Len(suffix) + 1, suffix)

\* The backquote of RST roles is written "'" here.
Backquote == "'"

\* The position of the first backquote of s at or after the 1-based position
\* i, 0 when there is none.
NextBacktick(s, i) ==
    LET ticks == {j \in i..Len(s) : CharAt(s, j) = Backquote}
    IN  IF ticks = {} THEN 0 ELSE CHOOSE j \in ticks : \A o \in ticks : j <= o

\* A substitution that deletes a role together with the text it wraps.
RECURSIVE DropRole(_, _, _)
DropRole(line, role, i) ==
    LET open  == ":" \o role \o ":" \o Backquote
        close == NextBacktick(line, i + Len(open))
    IN  IF i > Len(line) THEN SubSeq(line, 1, 0)
        ELSE IF OccursAt(line, i, open) /\ close > i + Len(open)
        THEN DropRole(line, role, close + 1)
        ELSE CharAt(line, i) \o DropRole(line, role, i + 1)

\* re.sub of the pattern :role:, backquote, ([^backquote]+), backquote by
\* its group 1, from the 1-based position i on:
\* every role with a non-empty text is replaced by its text.
RECURSIVE SubRole(_, _, _)
SubRole(line, role, i) ==
    LET open  == ":" \o role \o ":" \o Backquote
        close == NextBacktick(line, i + Len(open))
    IN  IF i > Len(line) THEN SubSeq(line, 1, 0)
        ELSE IF OccursAt(line, i, open) /\ close > i + Len(open)
        THEN SubSeq(line, i + Len(open), close - 1) \o SubRole(line, role, close + 1)
        ELSE CharAt(line, i) \o SubRole(line, role, i + 1)

\* The five substitutions, each deleting the role with its text.
CleanLineDropRoles(line) ==
    DropRole(DropRole(DropRole(DropRole(DropRole(line, "ref", 1), "doc", 1),
                               "func", 1), "class", 1), "meth", 1)

\* The five substitutions of the inline roles, in the order of the code.
CleanLine(line) ==
    SubRole(SubRole(SubRole(SubRole(SubRole(line, "ref", 1), "doc", 1),
                            "func", 1), "class", 1), "meth", 1)

\* A line that starts, after strip(), with ".." and not with ".. _".
IsExplicitMarkup(line) ==
    StartsWith(Strip(line), "..") /\ ~StartsWith(Strip(line), ".. _")

\* line and not line[0].isspace()
Unindented(line) == Len(line) > 0 /\ ~IsSpace(CharAt(line, 1))

\* The loop of clean_rst_content over the lines from the i-th on.
RECURSIVE CleanRstLines(_, _, _)
CleanRstLines(lines, i, in_directive) ==
    IF i > Len(lines) THEN <<>>
    ELSE LET line == lines[i]
         IN  IF IsExplicitMarkup(line)
             THEN CleanRstLines(lines, i + 1, in_directive \/ Contains(Strip(line), "::"))
             ELSE IF EndsWith(Strip(line), "::")
             THEN <<line>> \o CleanRstLines(lines, i + 1, in_directive)
             ELSE IF in_directive /\ ~Unindented(line)
             THEN CleanRstLines(lines, i + 1, TRUE)
             ELSE <<CleanLine(line)>> \o CleanRstLines(lines, i + 1, FALSE)

CleanRstContent(content) ==
    JoinLines(CleanRstLines(SplitLines(content), 1, FALSE))

RstLines ==
    {"", "wifi", "   gpio pin", ".. note::", "   wifi note", ".. wifi comment",
     ".. _wifi-label:", "See :ref:'wifi' and :func:'gpio'", "Example gpio::",
     "  .. code-block:: c", ":doc:'' wifi'"}

RstWords == {"wifi", "gpio"}

RstInputs ==
    [lines : UNION {[1..n -> RstLines] : n \in 0..MaxRstLines}, query : RstWords]

InitRst ==
    /\ IndexInit
    /\ fn_in \in RstInputs
    /\ fn_out = <<>>

\* clean_rst_content on the content of a file, then the match test of
\* search_docs on the cleaned content.
ApplyCleanRst ==
    /\ fn_out = <<>>
    /\ LET cleaned == CleanRstContent(JoinLines(fn_in.lines))
       IN  fn_out' = <<[cleaned   |-> cleaned,
                        has_match |-> FuzzyMatch(fn_in.query, cleaned, <<>>,
                                                 DefaultFuzzyThreshold)]>>
    /\ UNCHANGED <<indexVars, restVars, fn_in>>

NextRst == ApplyCleanRst

SpecRst == InitRst /\ [][NextRst]_vars

\* A directive: an explicit-markup line that contains "::".
IsDirective(line) == IsExplicitMarkup(line) /\ Contains(Strip(line), "::")

MaxDescriptionLines == 3

\* The default of max_length.
DescriptionMaxLength == 200

\* A line of one or more copies of one character: ^=+$, ^-+$, ^\*+$.
AllOf(line, c) == Len(line) > 0 /\ \A i \in 1..Len(line) : CharAt(line, i) = c

\* skip_patterns, matched at the start of a stripped line.
SkipLine(line) ==
    \/ AllOf(line, "=")
    \/ AllOf(line, "-")
    \/ AllOf(line, "*")
    \/ LeadingHashes(line) >= 1 /\ LeadingHashes(line) < Len(line)
       /\ IsSpace(CharAt(line, LeadingHashes(line) + 1))
    \/ Len(line) >= 3 /\ SubSeq(line, 1, 2) = ".." /\ IsSpace(CharAt(line, 3))
    \/ /\ Len(line) >= 3
       /\ CharAt(line, 1) = ":"
       /\ \E j \in 3..Len(line) :
             /\ CharAt(line, j) = ":"
             /\ \A k \in 2..(j - 1) : IsWordChar(CharAt(line, k))

\* lines: the stripped lines of the content that are not empty.
StrippedLines(content) ==
    SelectSeq([i \in DOMAIN SplitLines(content) |-> Strip(SplitLines(content)[i])],
              LAMBDA line : Len(line) > 0)

\* The loop: the lines kept, until their join reaches max_length.
RECURSIVE DescriptionLines(_, _, _)
DescriptionLines(lines, description_lines, max_length) ==
    IF lines = <<>> THEN description_lines
    ELSE IF SkipLine(Head(lines)) \/ Len(Head(lines)) < 20
    THEN DescriptionLines(Tail(lines), description_lines, max_length)
    ELSE IF Len(JoinSpace(Append(description_lines, Head(lines)))) >= max_length
    THEN Append(description_lines, Head(lines))
    ELSE DescriptionLines(Tail(lines), Append(description_lines, Head(lines)),
                          max_length)

\* A description returned without the sentinel.
ExtractDescriptionOrEmpty(content, max_length) ==
    LET description == JoinSpace(DescriptionLines(StrippedLines(content), <<>>,
                                                  max_length))
    IN  IF Len(description) > max_length
        THEN SubSeq(description, 1, max_length) \o "..."
        ELSE description

ExtractDescription(content, max_length) ==
    LET description == JoinSpace(DescriptionLines(StrippedLines(content), <<>>,
                                                  max_length))
        truncated   == IF Len(description) > max_length
                       THEN SubSeq(description, 1, max_length) \o "..."
                       ELSE description
    IN  IF Len(truncated) = 0 THEN NoDescription ELSE truncated

DescriptionSourceLines ==
    {"", "=====", "-----", "*****", "# Title of the whole document",
     ".. note:: a directive line here", ":orphan: a field list line here",
     "The wifi driver api", "The wifi driver api.",
     "  The gpio pins are digital.  ",
     "This line about the uart has exactly 41 c",
     "#Configure the station before any scan.",
     Repeat("wifi scan ", 10), "0" \o Repeat("gpio pins ", 10)}

DescriptionInputs ==
    [lines : UNION {[1..n -> DescriptionSourceLines] : n \in 0..MaxDescriptionLines},
     max_length : {41, DescriptionMaxLength}]

InitDescription ==
    /\ IndexInit
    /\ fn_in \in DescriptionInputs
    /\ fn_out = <<>>

\* One call of _extract_description.
ApplyDescription ==
    /\ fn_out = <<>>
    /\ fn_out' = <<ExtractDescription(JoinLines(fn_in.lines), fn_in.max_length)>>
    /\ UNCHANGED <<indexVars, restVars, fn_in>>

NextDescription == ApplyDescription

SpecDescription == InitDescription /\ [][NextDescription]_vars

\* The qualifying lines: stripped, not empty, matching no skip pattern and
\* of 20 characters at least.
Qualifying(lines) ==
    SelectSeq([i \in DOMAIN lines |-> Strip(lines[i])],
              LAMBDA line : Len(line) >= 20 /\ ~SkipLine(line))

\* The qualifying lines accumulated: the first ones, up to the line with
\* which the join reaches max_length.
Accumulated(lines, max_length) ==
    LET qualifying == Qualifying(lines)
        enough     == {n \in DOMAIN qualifying :
                          Len(JoinSpace(SubSeq(qualifying, 1, n))) >= max_length}
    IN  IF enough = {} THEN qualifying
        ELSE SubSeq(qualifying, 1, CHOOSE n \in enough : \A o \in enough : n <= o)

GeneratorOf(rec) ==
    IF rec.recommendation_type = "content_similarity" THEN 1
    ELSE IF rec.recommendation_type = "related_api" THEN 3
    ELSE 2

\* The candidates the three generators produced for a document.
CandidatesOf(all, path) == {i \in DOMAIN all : all[i].file_path = path}

\* C19: a recommendation that get_recommendations returns is one of the
\* candidates the generators produced for its document, no candidate for
\* that document has a higher relevance_score, and a candidate of equal
\* score does not come from an earlier generator.
C19_MergeKeepsHighestScore ==
    (Returned /\ ~response[1].error) =>
        LET all  == AllRecommendations(response[1].query, response[1].limit)
            recs == response[1].recommendations
        IN  \A k \in DOMAIN recs :
                /\ \E i \in CandidatesOf(all, recs[k].file_path) : all[i] = recs[k]
                /\ \A j \in CandidatesOf(all, recs[k].file_path) :
                       /\ all[j].relevance_score <= recs[k].relevance_score
                       /\ all[j].relevance_score = recs[k].relevance_score
                              => GeneratorOf(recs[k]) <= GeneratorOf(all[j])

\* A response whose document was produced by two generators with the same
\* score, the highest of its candidates: the one returned is the earlier
\* generator's.
C19_Witness ==
    /\ Returned /\ ~response[1].error
    /\ LET all  == AllRecommendations(response[1].query, response[1].limit)
           recs == response[1].recommendations
       IN  \E k \in DOMAIN recs :
              \E i, j \in CandidatesOf(all, recs[k].file_path) :
                 /\ all[i] = recs[k]
                 /\ GeneratorOf(all[i]) < GeneratorOf(all[j])
                 /\ all[i].relevance_score = all[j].relevance_score

(***************************************************************************)
(* calculate_relevance_score: the value returned                           *)
(***************************************************************************)
RECURSIVE Gcd(_, _)
Gcd(a, b) == IF b = 0 THEN a ELSE Gcd(b, a % b)

\* A non-negative fraction in lowest terms.
Reduced(r) ==
    LET g == Gcd(r.num, r.den)
    IN  [num |-> r.num \div g, den |-> r.den \div g]

\* S: the sum of the bonuses of one call.
BonusSum(in) ==
    LET query_lower == Lower(in.query)
        headings    == ExtractHeadings(in.content)
        age         == Now - in.last_modified
    IN  10 * Len(in.matches)
        + 15 * CountOccurrences(Lower(in.content), query_lower)
        + SumSeq([i \in DOMAIN headings |->
                    IF Contains(Lower(headings[i].title), query_lower)
                    THEN Max(30 - 5 * headings[i].level, 10) ELSE 0])
        + (IF Contains(Lower(Basename(in.file_path)), query_lower) THEN 25 ELSE 0)
        + (IF in.doc_type = "rst" THEN 5 ELSE 0)
        + (IF age < 30 * 86400 THEN 10
           ELSE IF age < 90 * 86400 THEN 5 ELSE 0)

\* S * m as a fraction: m = 0.5 + 0.5 * min(1000 / word_count, 1), which is
\* (word_count + min(1000, word_count)) / (2 * word_count), when
\* word_count > 0, and 1 otherwise.
PenalisedSum(in) ==
    IF in.word_count > 0
    THEN [num |-> BonusSum(in) * (in.word_count + Min(1000, in.word_count)),
          den |-> 2 * in.word_count]
    ELSE [num |-> BonusSum(in), den |-> 1]

\* C20: calculate_relevance_score returns min(100, S * m): S is 10 per
\* match, 15 per occurrence of the lower-cased query in the lower-cased
\* content, max(30 - 5 * level, 10) per heading whose title contains the
\* query, 25 when the base name of the file contains it, 5 for doc_type
\* "rst" and 10, 5 or 0 for an age below 30 days, below 90 days, or more;
\* m is 0.5 + 0.5 * min(1000 / word_count, 1) for word_count > 0 and 1
\* otherwise.  The multiplier applies to the whole sum, the clamp last.
C20_ScoreIsClampedPenalisedSum ==
    fn_out # <<>> =>
        LET sm == PenalisedSum(fn_in)
        IN  Reduced(fn_out[1]) =
               (IF sm.num >= 100 * sm.den THEN [num |-> 100, den |-> 1]
                ELSE Reduced(sm))

\* A call with matches, occurrences, a matching heading and a document of
\* 2000 words whose sum is above 100: the value returned is three quarters
\* of the sum, below 100, not three quarters of 100.
C20_Witness ==
    /\ fn_out # <<>>
    /\ Len(fn_in.matches) > 0
    /\ CountOccurrences(Lower(fn_in.content), Lower(fn_in.query)) > 0
    /\ HeadingBonus(Lower(fn_in.query), ExtractHeadings(fn_in.content)) > 0
    /\ fn_in.word_count = 2000
    /\ BonusSum(fn_in) > 100
    /\ fn_out[1].num < 100 * fn_out[1].den
    /\ 4 * Reduced(fn_out[1]).num = 3 * BonusSum(fn_in) * Reduced(fn_out[1]).den

(***************************************************************************)
(* calculate_relevance_score: the length multiplier of long documents      *)
(***************************************************************************)
\* C21 as stated: for word_count >= 1000 the multiplier is 0.5, so the value
\* returned is min(100, S / 2).
C21_FloorMultiplierFrom1000 ==
    (fn_out # <<>> /\ fn_in.word_count >= 1000) =>
        Reduced(fn_out[1]) =
           (IF BonusSum(fn_in) >= 200 THEN [num |-> 100, den |-> 1]
            ELSE Reduced([num |-> BonusSum(fn_in), den |-> 2]))

\* C21 as the code has it: for word_count >= 1000 the multiplier is
\* 0.5 + 500 / word_count, which is 1 at 1000 words and stays above 0.5: a
\* value below the clamp is the whole sum at 1000 words, the sum times
\* (word_count + 1000) / (2 * word_count) above, and more than half of a
\* positive sum.
C21_MultiplierAboveFloor ==
    (/\ fn_out # <<>>
     /\ fn_in.word_count >= 1000
     /\ fn_out[1].num < 100 * fn_out[1].den) =>
        /\ fn_in.word_count = 1000 => fn_out[1].num = BonusSum(fn_in) * fn_out[1].den
        /\ fn_in.word_count > 1000 =>
              Reduced(fn_out[1]) =
                 Reduced([num |-> BonusSum(fn_in) * (fn_in.word_count + 1000),
                          den |-> 2 * fn_in.word_count])
        /\ BonusSum(fn_in) > 0 => 2 * fn_out[1].num > BonusSum(fn_in) * fn_out[1].den

\* A document of exactly 1000 words with a positive sum below 100: the
\* value returned is the sum itself, not half of it.
C21_Witness ==
    /\ fn_out # <<>>
    /\ fn_in.word_count = 1000
    /\ BonusSum(fn_in) > 0
    /\ BonusSum(fn_in) < 100
    /\ fn_out[1] = [num |-> BonusSum(fn_in), den |-> 1]

(***************************************************************************)
(* _get_content_similarity_recommendations: the title bonus                *)
(***************************************************************************)
\* The heading bonus of a document: 5 / level for every heading and every
\* query term the heading's title contains, in units of 10^-6.
HeadingMatchBonus(query_terms, info) ==
    SumSeq([h \in DOMAIN info.headings |->
               Count({i \in DOMAIN query_terms :
                         Contains(Lower(info.headings[h].title), query_terms[i])})
               * ((5 * Micro) \div info.headings[h].level)])

\* The query terms, with their repetitions, that the lower-cased title holds.
TitleMatches(query_terms, info) ==
    {i \in DOMAIN query_terms : Contains(Lower(info.title), query_terms[i])}

\* C22 as stated: the score of a content-similarity recommendation is the
\* TF-IDF similarity plus the heading bonus plus a flat 10 when at least one
\* query term is in the title, whatever the number of matching terms.
C22_TitleBonusFlat ==
    (Returned /\ ~response[1].error) =>
        LET terms == QueryTerms[response[1].query]
            recs  == SimilarityRecommendations(response[1].query, response[1].limit)
        IN  \A k \in DOMAIN recs :
               LET info == document_index[recs[k].file_path]
               IN  recs[k].relevance_score =
                      TfIdf(terms, recs[k].file_path)
                      + HeadingMatchBonus(terms, info)
                      + (IF TitleMatches(terms, info) # {} THEN 10 * Micro ELSE 0)

(***************************************************************************)
(* _get_related_api_recommendations: the API-reference bonus               *)
(***************************************************************************)
\* The part of the related-API score that comes from the related terms: 3
\* for every term in the title and description, 5 for every term in a
\* heading.
RelatedTermScore(related_terms, info) ==
    LET doc_text == Lower(info.title \o " " \o info.description)
    IN  3 * Count({t \in related_terms : Contains(doc_text, t)})
        + SumSeq([h \in DOMAIN info.headings |->
                     5 * Count({t \in related_terms :
                                   Contains(Lower(info.headings[h].title), t)})])

MentionsApi(s) == Contains(Lower(s), "api") \/ Contains(Lower(s), "reference")

\* C23 as stated: a related-API recommendation has a score above 0, made of
\* the related-term score and of 8 when the document's path or its title
\* contains "api" or "reference".
C23_ApiBonusForPathOrTitle ==
    (Returned /\ ~response[1].error) =>
        LET related_terms == RelatedTerms(response[1].query)
            recs == RelatedRecommendations(response[1].query,
                                           FloorHalf(response[1].limit))
        IN  \A k \in DOMAIN recs :
               LET info == document_index[recs[k].file_path]
               IN  /\ recs[k].relevance_score > 0
                   /\ recs[k].relevance_score =
                         (RelatedTermScore(related_terms, info)
                          + (IF MentionsApi(recs[k].file_path) \/ MentionsApi(info.title)
                             THEN 8 ELSE 0)) * Micro

(***************************************************************************)
(* calculate_tf_idf_similarity on documents with and without query terms   *)
(***************************************************************************)
\* The document's Counter holds at least one of the query terms.
HasQueryTerm(query_terms, path) ==
    \E i \in DOMAIN query_terms :
        query_terms[i] \in DOMAIN document_index[path].term_frequency

\* A is listed, as a content-similarity recommendation, before B if B is
\* listed at all.
RanksAhead(recs, a, b) ==
    \E i \in DOMAIN recs :
        /\ recs[i].file_path = a
        /\ recs[i].recommendation_type = "content_similarity"
        /\ \A j \in DOMAIN recs : recs[j].file_path = b => i < j

\* C24: in the index a call of get_recommendations finds, a document that
\* contains a query term has a TF-IDF similarity above 0, a document that
\* contains none has 0, and the content-similarity generator lists the
\* first ahead of the second.
C24_MatchingDocumentRanksAhead ==
    (Returned /\ ~response[1].error) =>
        LET terms == QueryTerms[response[1].query]
            recs  == SimilarityRecommendations(response[1].query, Cardinality(Docs))
        IN  \A a, b \in DOMAIN document_index :
               (HasQueryTerm(terms, a) /\ ~HasQueryTerm(terms, b)) =>
                  /\ TfIdf(terms, b) = 0
                  /\ TfIdf(terms, a) > 0
                  /\ RanksAhead(recs, a, b)

(***************************************************************************)
(* calculate_tf_idf_similarity: the sign of the similarity                 *)
(***************************************************************************)
\* C27: in the index a call of get_recommendations finds, the TF-IDF
\* similarity of every indexed document is at least 0, and the document
\* frequency of every query term a document holds is at most
\* total_documents.
C27_SimilarityNeverNegative ==
    (Returned /\ ~response[1].error) =>
        LET terms == QueryTerms[response[1].query]
        IN  \A path \in DOMAIN document_index :
               /\ TfIdf(terms, path) >= 0
               /\ \A i \in DOMAIN terms :
                     terms[i] \in DOMAIN document_index[path].term_frequency
                        => FrequencyOf(terms[i]) <= total_documents

(***************************************************************************)
(* process_files_parallel.  A file path is its position in file_paths; the *)
(* processor's behaviour on each file is part of the input.  A task is     *)
(* pending until it has entered the semaphore, running while its           *)
(* processor_func call is in flight, and done when it has left the         *)
(* semaphore; semaphore is <<>> before the Semaphore exists.               *)
(***************************************************************************)
MaxFiles == 4

MaxConcurrent == 2

\* What processor_func does on a file: return a value, return None, raise.
Outcomes == {"value", "none", "raises"}

ParallelInputs ==
    [outcomes : UNION {[1..n -> Outcomes] : n \in 0..MaxFiles},
     max_concurrent : -1..MaxConcurrent]

\* await processor_func(path)
ProcessorFunc(outcome, path) ==
    [raised |-> outcome = "raises",
     value  |-> IF outcome = "value" THEN <<path>> ELSE <<>>]

\* process_single: the processor's result, None when it raised.
ProcessSingle(outcome, path) ==
    LET r == ProcessorFunc(outcome, path)
    IN  IF r.raised THEN <<>> ELSE r.value

\* A semaphore that never blocks.
LockedNever(value) == FALSE

\* asyncio.Semaphore: acquire waits while no permit is left.
Locked(value) == value <= 0

\* The results that are not None, in order.
RECURSIVE NotNone(_)
NotNone(results) ==
    IF results = <<>> THEN <<>> ELSE Head(results) \o NotNone(Tail(results))

Pending == {i \in DOMAIN tasks : tasks[i].pc = "pending"}

Running == {i \in DOMAIN tasks : tasks[i].pc = "running"}

InitParallel ==
    /\ IndexInit
    /\ fn_in \in ParallelInputs
    /\ fn_out = <<>>

\* Lines 624-632: the Semaphore is constructed, which raises ValueError for
\* a negative value, and gather schedules one task per path.
StartParallel ==
    /\ semaphore = <<>>
    /\ fn_out = <<>>
    /\ IF fn_in.max_concurrent < 0
       THEN /\ fn_out' = <<[raised |-> TRUE, results |-> <<>>]>>
            /\ UNCHANGED <<tasks, semaphore>>
       ELSE /\ semaphore' = <<fn_in.max_concurrent>>
            /\ tasks' = [i \in DOMAIN fn_in.outcomes |->
                            [pc |-> "pending", result |-> <<>>]]
            /\ UNCHANGED fn_out
    /\ UNCHANGED <<indexVars, configVars, cacheVars, fn_in>>

\* async with semaphore: the longest waiting task enters and its
\* processor_func call starts.
AcquireSemaphore ==
    /\ semaphore # <<>>
    /\ ~Locked(semaphore[1])
    /\ \E i \in Pending :
          /\ \A j \in Pending : i <= j
          /\ tasks' = [tasks EXCEPT ![i].pc = "running"]
    /\ semaphore' = <<semaphore[1] - 1>>
    /\ UNCHANGED <<indexVars, configVars, cacheVars, fn_in, fn_out>>

\* A processor_func call ends; process_single returns and the task leaves
\* the semaphore.
FinishProcessor ==
    /\ \E i \in Running :
          tasks' = [tasks EXCEPT ![i] =
                       [pc |-> "done",
                        result |-> ProcessSingle(fn_in.outcomes[i], i)]]
    /\ semaphore' = <<semaphore[1] + 1>>
    /\ UNCHANGED <<indexVars, configVars, cacheVars, fn_in, fn_out>>

\* gather returns when every task is done; line 634 filters the results.
GatherReturns ==
    /\ semaphore # <<>>
    /\ fn_out = <<>>
    /\ \A i \in DOMAIN tasks : tasks[i].pc = "done"
    /\ fn_out' = <<[raised |-> FALSE,
                    results |-> NotNone([i \in DOMAIN tasks |-> tasks[i].result])]>>
    /\ UNCHANGED <<indexVars, configVars, cacheVars, fn_in, tasks, semaphore>>

NextParallel ==
    \/ StartParallel
    \/ AcquireSemaphore
    \/ FinishProcessor
    \/ GatherReturns

SpecParallel == InitParallel /\ [][NextParallel]_vars

RECURSIVE RemoveMarkers(_)
RemoveMarkers(s) ==
    IF Len(s) = 0 THEN s
    ELSE IF OccursAt(s, 1, "**") THEN RemoveMarkers(SubSeq(s, 3, Len(s)))
    ELSE SubSeq(s, 1, 1) \o RemoveMarkers(SubSeq(s, 2, Len(s)))

\* C26: for a non-empty query, the output of highlight_matches without the
\* "**" markers is the input text, character for character, also when the
\* occurrences of the query overlap.
C26_MarkersRemovedGivesText ==
    (fn_out # <<>> /\ Len(fn_in.query) > 0) =>
        RemoveMarkers(fn_out[1]) = fn_in.text

(***************************************************************************)
(* config.py: the global configuration.  A configuration is its            *)
(* max_results and cache_size; the other fields keep their defaults, which *)
(* validate() accepts.  An environment variable is <<>> when unset.        *)
(***************************************************************************)
DefaultCacheSize == 100

IsDigit(c) == \E d \in 1..Len(Digits) : CharAt(Digits, d) = c

DigitValue(c) == (CHOOSE d \in 1..Len(Digits) : CharAt(Digits, d) = c) - 1

AllDigits(s) == Len(s) > 0 /\ \A i \in 1..Len(s) : IsDigit(CharAt(s, i))

RECURSIVE DigitsValue(_)
DigitsValue(s) ==
    IF Len(s) = 0 THEN 0
    ELSE 10 * DigitsValue(SubSeq(s, 1, Len(s) - 1)) + DigitValue(CharAt(s, Len(s)))

\* parse_int: int(value) if value else default, and default on ValueError.
ParseInt(value, default) ==
    IF value = <<>> THEN default
    ELSE IF Len(value[1]) = 0 THEN default
    ELSE IF AllDigits(value[1]) THEN DigitsValue(value[1])
    ELSE IF CharAt(value[1], 1) = "-" /\ AllDigits(SubSeq(value[1], 2, Len(value[1])))
         THEN 0 - DigitsValue(SubSeq(value[1], 2, Len(value[1])))
    ELSE default

\* ServerConfig.from_environment
FromEnvironment ==
    [max_results |-> ParseInt(environ.ESP_IDF_MAX_RESULTS, DefaultMaxResults),
     cache_size  |-> ParseInt(environ.ESP_IDF_CACHE_SIZE, DefaultCacheSize)]

\* ServerConfig.validate returns without raising.
ValidateOk(config) ==
    /\ ~(config.max_results <= 0 \/ config.max_results > 1000)
    /\ ~(config.cache_size <= 0 \/ config.cache_size > 10000)

\* The values the host gives to an environment variable.
EnvValues == {<<>>, <<"">>, <<"0">>, <<"50">>, <<"abc">>, <<"-5">>, <<"1001">>}

\* The ServerConfig objects callers pass to set_config.
PassedConfigs == [max_results : {0, 7, 1001}, cache_size : {0, DefaultCacheSize}]

ConfigCall(op, raised, returned) ==
    [op |-> op, raised |-> raised, returned |-> returned]

InitConfig ==
    /\ IndexInit
    /\ fn_in = <<>>
    /\ fn_out = <<>>

\* The host sets or unsets an environment variable.
Setenv ==
    /\ \E name \in DOMAIN environ, value \in EnvValues :
          environ' = [environ EXCEPT ![name] = value]
    /\ UNCHANGED <<indexVars, parallelVars, cacheVars, fn_in, fn_out,
                   _config, config_call>>

\* get_config: a missing instance is assigned from the environment, then
\* validated.
GetConfig ==
    /\ IF _config = <<>>
       THEN /\ _config' = <<FromEnvironment>>
            /\ config_call' =
                  <<ConfigCall("get_config", ~ValidateOk(FromEnvironment),
                               IF ValidateOk(FromEnvironment)
                               THEN <<FromEnvironment>> ELSE <<>>)>>
       ELSE /\ config_call' = <<ConfigCall("get_config", FALSE, _config)>>
            /\ UNCHANGED _config
    /\ UNCHANGED <<indexVars, parallelVars, cacheVars, fn_in, fn_out, environ>>

\* set_config: the passed configuration is validated, then assigned.
SetConfig ==
    /\ \E config \in PassedConfigs :
          IF ValidateOk(config)
          THEN /\ _config' = <<config>>
               /\ config_call' = <<ConfigCall("set_config", FALSE, <<>>)>>
          ELSE /\ config_call' = <<ConfigCall("set_config", TRUE, <<>>)>>
               /\ UNCHANGED _config
    /\ UNCHANGED <<indexVars, parallelVars, cacheVars, fn_in, fn_out, environ>>

\* reload_config: the instance is assigned from the environment, then
\* validated.
ReloadConfig ==
    /\ _config' = <<FromEnvironment>>
    /\ config_call' =
          <<ConfigCall("reload_config", ~ValidateOk(FromEnvironment),
                       IF ValidateOk(FromEnvironment)
                       THEN <<FromEnvironment>> ELSE <<>>)>>
    /\ UNCHANGED <<indexVars, parallelVars, cacheVars, fn_in, fn_out, environ>>

NextConfig ==
    \/ Setenv
    \/ GetConfig
    \/ SetConfig
    \/ ReloadConfig

SpecConfig == InitConfig /\ [][NextConfig]_vars

\* C28: a configuration returned by a get_config call that did not raise
\* passes validate(), and the global instance, when there is one, passes
\* validate() too.
C28_InstalledConfigIsValid ==
    /\ (/\ config_call # <<>>
        /\ config_call[1].op = "get_config"
        /\ ~config_call[1].raised) => ValidateOk(config_call[1].returned[1])
    /\ _config # <<>> => ValidateOk(_config[1])

(***************************************************************************)
(* FileCache and the file read of search_docs, for one file that another   *)
(* process rewrites.  Every rewrite changes the content and the st_mtime.  *)
(***************************************************************************)
MaxWrites == 4

Versions == {"v0", "v1", "v2"}

CacheEntry(content, mtime) == [content |-> content, mtime |-> mtime]

\* FileCache.get: None for a missing entry and for an entry whose mtime is
\* not the file's, which is deleted; the cached content otherwise.
FileCacheGet(cache, file) ==
    IF cache = <<>> THEN [cache |-> cache, content |-> <<>>]
    ELSE IF file.mtime # cache[1].mtime THEN [cache |-> <<>>, content |-> <<>>]
    ELSE [cache |-> cache, content |-> <<cache[1].content>>]

\* FileCache.put: the content with the st_mtime the file has now.
FileCachePut(content, file) == <<CacheEntry(content, file.mtime)>>

InitCache ==
    /\ IndexInit
    /\ fn_in = <<>>
    /\ fn_out = <<>>

\* Another process rewrites the file.
ModifyFile ==
    /\ disk.mtime < MaxWrites
    /\ \E content \in Versions \ {disk.content} :
          disk' = [content |-> content, mtime |-> disk.mtime + 1]
    /\ UNCHANGED <<indexVars, parallelVars, configVars, fn_in, fn_out,
                   file_cache, search_local, get_result>>

\* search_docs line 177: content = self.file_cache.get(file_path); a hit
\* ends the file access of this iteration.
CacheGet ==
    /\ search_local.pc = "idle"
    /\ LET got == FileCacheGet(file_cache, disk)
       IN  /\ file_cache' = got.cache
           /\ get_result' = <<[returned |-> got.content, current |-> disk.content]>>
           /\ search_local' = IF got.content = <<>>
                              THEN [pc |-> "missed", content |-> <<>>]
                              ELSE search_local
    /\ UNCHANGED <<indexVars, parallelVars, configVars, fn_in, fn_out, disk>>

\* search_docs line 180: content = file_path.read_text(...)
ReadText ==
    /\ search_local.pc = "missed"
    /\ search_local' = [pc |-> "read", content |-> <<disk.content>>]
    /\ UNCHANGED <<indexVars, parallelVars, configVars, fn_in, fn_out,
                   disk, file_cache, get_result>>

\* search_docs line 181: self.file_cache.put(file_path, content)
CachePut ==
    /\ search_local.pc = "read"
    /\ file_cache' = FileCachePut(search_local.content[1], disk)
    /\ search_local' = [pc |-> "idle", content |-> <<>>]
    /\ UNCHANGED <<indexVars, parallelVars, configVars, fn_in, fn_out,
                   disk, get_result>>

NextCache ==
    \/ ModifyFile
    \/ CacheGet
    \/ ReadText
    \/ CachePut

SpecCache == InitCache /\ [][NextCache]_vars

\* C29: the content a FileCache.get call returns is the content the file
\* has when the call returns.
C29_CacheNeverStale ==
    (get_result # <<>> /\ get_result[1].returned # <<>>) =>
        get_result[1].returned[1] = get_result[1].current

(***************************************************************************)
(* TextProcessor.clean_markdown_content.  As in the RST section, "'"       *)
(* stands for the inline-code quote.                                       *)
(***************************************************************************)
MaxMarkdownLines == 4

\* The length of the longest prefix of s from position i on that holds no
\* character of stop.
RECURSIVE RunLength(_, _, _)
RunLength(s, i, stop) ==
    IF i > Len(s) \/ Contains(stop, CharAt(s, i)) THEN 0
    ELSE 1 + RunLength(s, i + 1, stop)

\* re.sub of delim ([^c]+) delim by group 1, c the first character of delim.
RECURSIVE SubWrapped(_, _)
SubWrapped(s, delim) ==
    IF Len(s) = 0 THEN s
    ELSE LET run == RunLength(s, Len(delim) + 1, CharAt(delim, 1))
         IN  IF /\ OccursAt(s, 1, delim)
                /\ run >= 1
                /\ OccursAt(s, Len(delim) + run + 1, delim)
             THEN SubSeq(s, Len(delim) + 1, Len(delim) + run)
                  \o SubWrapped(SubSeq(s, 2 * Len(delim) + run + 1, Len(s)), delim)
             ELSE SubSeq(s, 1, 1) \o SubWrapped(SubSeq(s, 2, Len(s)), delim)

\* re.sub of \[([^\]]+)\]\([^)]+\) by group 1.
RECURSIVE SubLink(_)
SubLink(s) ==
    IF Len(s) = 0 THEN s
    ELSE LET text == RunLength(s, 2, "]")
             url  == RunLength(s, text + 4, ")")
         IN  IF /\ OccursAt(s, 1, "[")
                /\ text >= 1
                /\ OccursAt(s, text + 2, "](")
                /\ url >= 1
                /\ OccursAt(s, text + 4 + url, ")")
             THEN SubSeq(s, 2, text + 1)
                  \o SubLink(SubSeq(s, text + url + 5, Len(s)))
             ELSE SubSeq(s, 1, 1) \o SubLink(SubSeq(s, 2, Len(s)))

\* Lines 126-132: bold, italic, inline code and links.
CleanMarkdownLine(line) ==
    SubLink(SubWrapped(SubWrapped(SubWrapped(line, "**"), "*"), Backquote))

\* The for loop of lines 108-134 from line i (0-based) on.
RECURSIVE CleanMarkdownLines(_, _, _, _)
CleanMarkdownLines(lines, i, in_front_matter, front_matter_start) ==
    IF i >= Len(lines) THEN <<>>
    ELSE LET stripped == Strip(lines[i + 1])
         IN  IF i = 0 /\ stripped = "---"
             THEN CleanMarkdownLines(lines, i + 1, TRUE, TRUE)
             ELSE IF in_front_matter /\ stripped = "---" /\ ~front_matter_start
             THEN CleanMarkdownLines(lines, i + 1, FALSE, front_matter_start)
             ELSE IF in_front_matter
             THEN CleanMarkdownLines(lines, i + 1, in_front_matter, FALSE)
             ELSE <<CleanMarkdownLine(lines[i + 1])>>
                  \o CleanMarkdownLines(lines, i + 1, in_front_matter,
                                        front_matter_start)

CleanMarkdownContent(content) ==
    JoinLines(CleanMarkdownLines(SplitLines(content), 0, FALSE, FALSE))

MarkdownLines ==
    {"---", " --- ", "title: x", "Body", "B **b** *i* [t](u) 'c'", ""}

MarkdownInputs ==
    [lines : UNION {[1..n -> MarkdownLines] : n \in 0..MaxMarkdownLines}]

InitMarkdown ==
    /\ IndexInit
    /\ fn_in \in MarkdownInputs
    /\ fn_out = <<>>

\* One call of clean_markdown_content on the lines joined by newlines.
ApplyCleanMarkdown ==
    /\ fn_out = <<>>
    /\ fn_out' = <<CleanMarkdownContent(JoinLines(fn_in.lines))>>
    /\ UNCHANGED <<indexVars, restVars, fn_in>>

NextMarkdown == ApplyCleanMarkdown

SpecMarkdown == InitMarkdown /\ [][NextMarkdown]_vars

\* A line that is "---" once stripped.
IsDelimiter(line) == Strip(line) = "---"

\* The lines from position first on, each with its inline markup removed.
CleanedFrom(lines, first) ==
    JoinLines([j \in 1..(Len(lines) - first + 1) |->
                  CleanMarkdownLine(lines[first + j - 1])])

\* C30: when the first line is "---" and a later line is, the output is
\* made of the lines after the first such later line, all of them; when
\* the first line is not "---" the output is made of all the lines.
C30_FrontMatterBlockDropped ==
    fn_out # <<>> =>
        LET lines   == fn_in.lines
            closers == {j \in 2..Len(lines) : IsDelimiter(lines[j])}
        IN  IF Len(lines) >= 1 /\ IsDelimiter(lines[1])
            THEN closers # {} =>
                    fn_out[1] =
                       CleanedFrom(lines, 1 + CHOOSE j \in closers :
                                                 \A o \in closers : j <= o)
            ELSE fn_out[1] = CleanedFrom(lines, 1)
====
